---- MODULE Spec2Model ----
(***************************************************************************)
(* Timetable extraction engine of scripts/timetable_parser.py.             *)
(*                                                                         *)
(* A text is a sequence of lines; a line is a sequence of word tokens      *)
(* (strings).  The regular expressions of the parser become predicates on  *)
(* tokens.  Columns and grid positions are 0-based as in the source; TLA+  *)
(* sequences are 1-based, so grid position (i, j) is grid[i + 1][j + 1].   *)
(***************************************************************************)
EXTENDS Integers, Sequences, FiniteSets, TLC

VARIABLES
    mode,       \* which function is running: "expand" or "parse"
    pc,         \* position inside the running function
    table,      \* _expand_table: the <tr> rows consumed so far (input)
    grid,       \* _expand_table: `grid` before padding
    spans,      \* _expand_table: `spans`, column -> [rows, text]
    origins,    \* _expand_table: where each real cell landed (row, col)
    expanded,   \* _expand_table: the returned, padded grid
    doc,              \* parse: the nodes of the document visited so far
    expected,         \* parse: `expected_groups`, as a set
    current_group,    \* sectioned: `current_group`, 0 for None
    grouped_entries,  \* `grouped_entries`: group -> day -> entries
    detected_groups,  \* `detected_groups`, as a set
    group_columns,    \* columnar: `group_columns`, column -> group
    current_day,      \* columnar: `current_day`, "" for None
    cgrid,            \* columnar: the grid of the main table
    crow,             \* columnar: the next grid row of the walk (1-based)
    sources,          \* history: where each entry of grouped_entries came from
    result,           \* what parse_timetable_html returned or raised
    cell_lines,       \* _parse_cell_entries: the lines of the cell (input)
    cell_time,        \* _parse_cell_entries: `time_slot` (input)
    cell_out,         \* _parse_cell_entries: the returned entries
    col_width,        \* _detect_group_columns: the width of the grid (input)
    col_grid,         \* _detect_group_columns: `grid` (input)
    col_expected,     \* _detect_group_columns: `expected_groups`, as a set
    col_out,          \* _detect_group_columns: the returned mapping
    sc_entries,       \* scrape main: `entries`, the configured sources
    sc_soft,          \* scrape main: `args.soft_fail_empty`
    sc_files,         \* the timetable files under the output directory
    sc_index,         \* scrape main: the next entry of the loop (1-based)
    sc_success,       \* scrape main: `success_count`
    sc_written,       \* scrape main: `written_count`
    sc_empty,         \* scrape main: `empty_count`
    sc_failures,      \* scrape main: `source_failures`
    sc_summaries,     \* scrape main: `source_summaries`
    sc_warnings,      \* scrape main: `source_warnings`
    sc_status,        \* the payload written to .scrape-status.json
    calls,            \* concurrent parse calls: the locals of each call
    type_text,        \* _detect_type: `text` (input)
    type_out          \* _detect_type: the returned type, "" before it returns

expandVars == <<table, grid, spans, origins, expanded>>
parseVars == <<doc, expected, current_group, grouped_entries,
               detected_groups, group_columns, current_day, cgrid, crow,
               sources, result>>
cellVars == <<cell_lines, cell_time, cell_out>>
\* The variables of the functions modelled after the parser's two machines.
columnVars == <<col_width, col_grid, col_expected, col_out>>
scrapeVars == <<sc_entries, sc_soft, sc_files, sc_index, sc_success,
                sc_written, sc_empty, sc_failures, sc_summaries, sc_warnings,
                sc_status>>
callVars == <<calls>>
typeVars == <<type_text, type_out>>
tailVars == <<typeVars>>
laterVars == <<scrapeVars, callVars, tailVars>>
otherVars == <<cellVars, columnVars, laterVars>>
vars == <<mode, pc, expandVars, parseVars, otherVars>>

\* ------------------------------------------------------------------ bounds
MaxRows == 3
MaxCells == 3
MaxSpan == 2
MaxNodes == 3
MaxDataRows == 2

\* ------------------------------------------------------------ small helpers
EmptyText == <<>>

SetMax(S) == IF S = {} THEN 0 ELSE CHOOSE m \in S : \A x \in S : x <= m

Repeat(x, n) == [k \in 1..n |-> x]

\* ------------------------------------------------------------------ strings
\* A Python string is the sequence of its whitespace-separated words, with
\* every newline kept as the word NL.
NL == "\n"

Words(s) == SelectSeq(s, LAMBDA w : w # NL)

\* str.splitlines()
RECURSIVE SplitAcc(_, _, _)
SplitAcc(s, cur, acc) ==
    IF s = <<>> THEN (IF cur = <<>> THEN acc ELSE Append(acc, cur))
    ELSE IF Head(s) = NL THEN SplitAcc(Tail(s), <<>>, Append(acc, cur))
    ELSE SplitAcc(Tail(s), Append(cur, Head(s)), acc)

SplitLines(s) == SplitAcc(s, <<>>, <<>>)

RECURSIVE JoinNL(_)
JoinNL(lines) ==
    IF lines = <<>> THEN <<>>
    ELSE IF Len(lines) = 1 THEN Head(lines)
    ELSE Head(lines) \o <<NL>> \o JoinNL(Tail(lines))

\* pipeline_utils.normalize_space(value): all whitespace runs become one space.
normalize_space(s) == Words(s)

\* pipeline_utils.normalize_space(value, keep_newlines=True): empty lines go.
normalize_space_keep(s) ==
    JoinNL(SelectSeq(SplitLines(s), LAMBDA l : l # <<>>))

\* _extract_cell_text: get_text("\n", strip=True), then normalize_space.
extract_cell_text(raw) == normalize_space_keep(raw)

\* _fold: lower case, diacritics dropped.  The words of the model that
\* folding changes, each with its folded form.
Folded ==
    "Luni" :> "luni" @@ "Marti" :> "marti" @@ "Ziua" :> "ziua" @@
    "Ora" :> "ora" @@ "Disciplina" :> "disciplina" @@ "Sala" :> "sala" @@
    "Grupa" :> "grupa" @@ "Orar" :> "orar" @@ "Algebra" :> "algebra" @@
    "Programare" :> "programare" @@ "Logica" :> "logica" @@
    "(S)" :> "(s)" @@ "(C)" :> "(c)" @@ "(L)" :> "(l)" @@
    "Prof." :> "prof." @@ "Ada" :> "ada" @@ "Lovelace" :> "lovelace" @@
    "CR1" :> "cr1" @@ "IM1" :> "im1" @@ "(POP" :> "(pop" @@
    "Ion)," :> "ion)," @@ "9/I" :> "9/i" @@ "Unknown" :> "unknown" @@
    "Seminar" :> "seminar" @@ "Tip" :> "tip" @@
    "A" :> "a" @@ "B" :> "b"

fold(w) == IF w \in DOMAIN Folded THEN Folded[w] ELSE w

\* DAY_ALIASES in dictionary order.  The two aliases spelt with a diacritic
\* are left out: a folded text holds no diacritic, so they never match.
DAY_ALIASES ==
    << <<"luni", "monday">>, <<"monday", "monday">>, <<"hetfo", "monday">>,
       <<"marti", "tuesday">>, <<"tuesday", "tuesday">>, <<"kedd", "tuesday">>,
       <<"miercuri", "wednesday">>, <<"wednesday", "wednesday">>,
       <<"szerda", "wednesday">>,
       <<"joi", "thursday">>, <<"thursday", "thursday">>,
       <<"csutortok", "thursday">>,
       <<"vineri", "friday">>, <<"friday", "friday">>, <<"pentek", "friday">> >>

DAY_ORDER == <<"monday", "tuesday", "wednesday", "thursday", "friday">>

HasWord(s, P(_)) == \E k \in 1..Len(s) : s[k] # NL /\ P(s[k])

\* normalize_day: the canonical day of the first alias, in dictionary
\* order, that is a word of the folded text; "" stands for None.
normalize_day(s) ==
    LET folded == {fold(s[k]) : k \in 1..Len(s)}
        hits == {a \in 1..Len(DAY_ALIASES) : DAY_ALIASES[a][1] \in folded}
    IN IF hits = {} THEN ""
       ELSE DAY_ALIASES[CHOOSE a \in hits : \A b \in hits : a <= b][2]

\* TIME_RE: the words that hold an "HH[:MM]-HH[:MM]" range, each with the
\* value normalize_time gives its match (the dash becomes an en dash,
\* written ~ here).
TimeOf ==
    [w \in {"08-10", "10-12"} |-> IF w = "08-10" THEN "08~10" ELSE "10~12"]

\* TIME_RE.search(s), then normalize_time(match.group(1)); "" for no match.
SearchTime(s) ==
    LET hits == {k \in 1..Len(s) : s[k] \in DOMAIN TimeOf}
    IN IF hits = {} THEN ""
       ELSE TimeOf[s[CHOOSE k \in hits : \A m \in hits : k <= m]]

\* TIME_RE.fullmatch(s)
FullTime(s) == Len(s) = 1 /\ s[1] \in DOMAIN TimeOf

\* GROUP_RE: the words that hold a 3-4 digit number, with its value.
GroupOf == "511" :> 511 @@ "512" :> 512 @@ "000" :> 0

\* None where a group number is expected (a group number is 0 or more).
NoGroup == -1

\* GROUP_RE.findall(s) as integers, in text order.
RECURSIVE FindGroups(_)
FindGroups(s) ==
    IF s = <<>> THEN <<>>
    ELSE IF Head(s) \in DOMAIN GroupOf
         THEN <<GroupOf[Head(s)]>> \o FindGroups(Tail(s))
         ELSE FindGroups(Tail(s))

\* _extract_group_heading: GROUP_HEADING_RE.search on a normalized text;
\* NoGroup stands for None.
extract_group_heading(s) ==
    LET w == Words(s)
        hits == {k \in 1..(Len(w) - 1) :
                   fold(w[k]) = "grupa" /\ w[k + 1] \in DOMAIN GroupOf}
    IN IF hits = {} THEN NoGroup
       ELSE GroupOf[w[(CHOOSE k \in hits : \A m \in hits : k <= m) + 1]]

\* _header_name_to_key; "" stands for None.
header_name_to_key(s) ==
    LET has(set) == HasWord(s, LAMBDA w : fold(w) \in set)
        w == Words(s)
    IN IF has({"ziua", "day"}) THEN "day"
       ELSE IF has({"ora", "orele", "time"}) THEN "time"
       ELSE IF has({"frecventa", "frequency"}) THEN "frequency"
       ELSE IF has({"sala", "room"}) THEN "room"
       ELSE IF has({"tip", "tipul", "type"}) THEN "type"
       ELSE IF has({"disciplina", "materia", "course"}) THEN "course"
       ELSE IF \/ has({"instructor", "profesor"})
               \/ \E k \in 1..(Len(w) - 1) :
                    fold(w[k]) \in {"cadr", "cadrul"} /\ fold(w[k + 1]) = "didactic"
            THEN "instructor"
       ELSE ""

\* ------------------------------------------------------------ field classes
\* Each regular expression on one word is the set of words of the model it
\* matches in.
TitleWords == {"Prof."}                    \* TITLE_RE
RoomKeywordWords == {"Sala"}               \* ROOM_KEYWORD_RE
WeekWords == {"sapt."}                     \* "week", "sapt.", "saptamana"
Week1Words == {"1", "1:"}                  \* the "1" that ends a week marker
Week2Words == {"2", "2:"}
FrequencyLineWords == {"sapt."}            \* _is_frequency_line, one word
\* [A-Za-z0-9._/-]+ at the start of a word: the piece ROOM_CAPTURE_RE takes.
CodePrefix(w) ==
    CASE w \in {"(S)", "(C)", "(L)", "(POP"} -> ""
      [] w = "Ion)," -> "Ion"
      [] w = "1:" -> "1"
      [] w = "2:" -> "2"
      [] OTHER -> w
\* [A-Za-z0-9_./-]+ over the whole word: the room of the inline form.
IsRoomToken(w) == w # NL /\ CodePrefix(w) = w
\* word[0].isupper()
CapitalizedWords ==
    {"Ziua", "Ora", "Disciplina", "Sala", "Grupa", "Orar", "Luni", "Marti",
     "Algebra", "Programare", "Prof.", "Ada", "Lovelace", "CR1", "IM1",
     "Logica", "Ion),", "Unknown", "A", "B"}
\* Words that, with "(", ")" and blanks stripped from their ends, match
\* FORMATION_NUMERIC_RE, or match FORMATION_TOKEN_RE and none of the
\* room-code patterns.
FormationWords ==
    {"Ziua", "Ora", "Grupa", "Orar", "511", "512", "Luni", "Marti", "(S)",
     "(C)", "(L)", "Ada", "IM1", "Logica", "(POP", "A", "B", "x", "y",
     "impar", "par"}
TypeTagWords == {"(C)", "(S)", "(L)"}      \* TYPE_TAG_RE
\* The type a parenthesized marker gives (lines 213-218).
TypeTagOf ==
    [w \in {"(C)", "(S)", "(L)", "(curs)", "(sem)", "(lab)"} |->
        CASE w \in {"(C)", "(curs)"} -> "lecture"
          [] w \in {"(S)", "(sem)"} -> "seminar"
          [] w \in {"(L)", "(lab)"} -> "lab"]

\* A classification that knows no week marker.
detect_frequency_weekly(s) == "weekly"

\* _detect_frequency
detect_frequency(s) ==
    LET w == Words(s)
        marker(set) == \E k \in 1..(Len(w) - 1) :
                          w[k] \in WeekWords /\ w[k + 1] \in set
        has_week1 == marker(Week1Words) \/ HasWord(s, LAMBDA x : fold(x) \in {"impar", "impara"})
        has_week2 == marker(Week2Words) \/ HasWord(s, LAMBDA x : fold(x) \in {"par", "para"})
    IN IF has_week1 /\ has_week2 THEN "weekly"
       ELSE IF has_week1 THEN "week1"
       ELSE IF has_week2 THEN "week2"
       ELSE "weekly"

\* A type detection without the default of line 225.
detect_type_marked(s) ==
    IF HasWord(s, LAMBDA x : x \in DOMAIN TypeTagOf)
    THEN TypeTagOf[s[CHOOSE k \in 1..Len(s) : s[k] \in DOMAIN TypeTagOf]]
    ELSE ""

\* A classification that asks the keywords before the markers.
detect_type_keywords_first(s) ==
    LET tag(t) == HasWord(s, LAMBDA x : x \in DOMAIN TypeTagOf /\ TypeTagOf[x] = t)
        key(set) == HasWord(s, LAMBDA x : fold(x) \in set)
    IN IF key({"lecture", "course", "curs"}) THEN "lecture"
       ELSE IF key({"seminar"}) THEN "seminar"
       ELSE IF key({"lab", "laborator"}) THEN "lab"
       ELSE IF tag("lecture") THEN "lecture"
       ELSE IF tag("seminar") THEN "seminar"
       ELSE IF tag("lab") THEN "lab"
       ELSE "lecture"

\* _detect_type
detect_type(s) ==
    LET tag(t) == HasWord(s, LAMBDA x : x \in DOMAIN TypeTagOf /\ TypeTagOf[x] = t)
        key(set) == HasWord(s, LAMBDA x : fold(x) \in set)
    IN IF tag("lecture") THEN "lecture"
       ELSE IF tag("seminar") THEN "seminar"
       ELSE IF tag("lab") THEN "lab"
       ELSE IF key({"lecture", "course", "curs"}) THEN "lecture"
       ELSE IF key({"seminar"}) THEN "seminar"
       ELSE IF key({"lab", "laborator"}) THEN "lab"
       ELSE "lecture"

\* _is_frequency_line
is_frequency_line(s) ==
    HasWord(s, LAMBDA x : x \in FrequencyLineWords
                          \/ fold(x) \in {"weekly", "sapt", "impar", "par"})

\* _is_time_or_day_token
is_time_or_day_token(s) ==
    LET cleaned == normalize_space(s)
    IN FullTime(cleaned) \/ (normalize_day(cleaned) # "" /\ Len(cleaned) <= 2)

\* _strip_subgroup_prefix: no word of the model opens with a subgroup
\* prefix ("sgr.", "subgr.", "gr."), so only the normalization acts.
strip_subgroup_prefix(s) == normalize_space(s)

\* _is_formation_line
is_formation_line(s) ==
    LET cleaned == strip_subgroup_prefix(s)
    IN Len(cleaned) = 1 /\ cleaned[1] \in FormationWords

\* _is_room_line
is_room_line(s) == HasWord(s, LAMBDA x : x \in RoomKeywordWords)

HasTitle(s) == HasWord(s, LAMBDA x : x \in TitleWords)

\* _is_instructor_line
is_instructor_line(s) ==
    IF HasTitle(s) THEN TRUE
    ELSE IF is_room_line(s) THEN FALSE
    ELSE LET words == Words(s)
             capitalized == Cardinality({k \in 1..Len(words) :
                                           words[k] \in CapitalizedWords})
         IN Len(words) >= 2 /\ capitalized >= 2 /\ ~is_frequency_line(s)

\* The first element of a sequence of strings that satisfies P, "" if none.
FirstLine(lines, P(_)) ==
    LET hits == {k \in 1..Len(lines) : P(lines[k])}
    IN IF hits = {} THEN 0 ELSE CHOOSE k \in hits : \A m \in hits : k <= m

\* ROOM_CAPTURE_RE.search(line).group(1), "" when nothing matches: the
\* first room keyword followed (after an optional ":" or "-") by a code.
RoomCapture(s) ==
    LET w == Words(s)
        cap(k) == IF k + 2 <= Len(w) /\ w[k + 1] \in {"-", ":"}
                     /\ CodePrefix(w[k + 2]) # ""
                  THEN CodePrefix(w[k + 2])
                  ELSE IF k + 1 <= Len(w) THEN CodePrefix(w[k + 1]) ELSE ""
        hits == {k \in 1..Len(w) : w[k] \in RoomKeywordWords /\ cap(k) # ""}
    IN IF hits = {} THEN <<>>
       ELSE <<cap(CHOOSE k \in hits : \A m \in hits : k <= m)>>

\* _detect_room
detect_room(lines) ==
    LET k1 == FirstLine(lines, LAMBDA l : RoomCapture(l) # <<>>)
        k2 == FirstLine(lines, LAMBDA l : is_room_line(l))
        lone(l) == LET token == normalize_space(l)
                   IN /\ Len(token) = 1
                      /\ ~is_frequency_line(token)
                      /\ ~is_formation_line(token)
                      /\ ~is_time_or_day_token(token)
                      /\ ~HasTitle(token)
        k3 == FirstLine(lines, lone)
    IN IF k1 # 0 THEN RoomCapture(lines[k1])
       ELSE IF k2 # 0 THEN lines[k2]
       ELSE IF k3 # 0 THEN normalize_space(lines[k3])
       ELSE <<>>

\* _detect_instructor
detect_instructor(lines) ==
    LET k1 == FirstLine(lines, HasTitle)
        k2 == FirstLine(lines, is_instructor_line)
    IN IF k1 # 0 THEN lines[k1]
       ELSE IF k2 # 0 THEN lines[k2]
       ELSE <<>>

\* str.strip(" -"): the dashes standing alone at either end go.
RECURSIVE StripDashes(_)
StripDashes(w) ==
    IF w = <<>> THEN w
    ELSE IF Head(w) = "-" THEN StripDashes(Tail(w))
    ELSE IF w[Len(w)] = "-" THEN StripDashes(SubSeq(w, 1, Len(w) - 1))
    ELSE w

\* The words that do not begin with a letter, a digit or "_".
NonWordStart == {"(S)", "(C)", "(L)", "(POP", "-", ".", ":"}

\* "impar", "impara", "par", "para" standing as words of their own.
ParityWords == {"impar", "par"}

\* The frequency words _strip_inline_metadata deletes: a parity word, or a
\* week word with the 1 or 2 after it ("1:" and "2:" keep their colon).  A
\* week word with no number after it goes with its dot when a word
\* character follows, and keeps the dot otherwise.
RECURSIVE StripFrequency(_)
StripFrequency(w) ==
    IF w = <<>> THEN <<>>
    ELSE IF Head(w) \in ParityWords THEN StripFrequency(Tail(w))
    ELSE IF Head(w) \in WeekWords
         THEN IF Len(w) >= 2 /\ w[2] \in {"1", "2"}
              THEN StripFrequency(Tail(Tail(w)))
              ELSE IF Len(w) >= 2 /\ w[2] \in {"1:", "2:"}
              THEN <<":">> \o StripFrequency(Tail(Tail(w)))
              ELSE IF Len(w) >= 2 /\ w[2] \notin NonWordStart
              THEN StripFrequency(Tail(w))
              ELSE <<".">> \o StripFrequency(Tail(w))
         ELSE <<Head(w)>> \o StripFrequency(Tail(w))

\* _strip_inline_metadata
strip_inline_metadata(s) ==
    LET v1 == strip_subgroup_prefix(s)
        v2 == SelectSeq(v1, LAMBDA x : x \notin TypeTagWords)
        v3 == StripFrequency(v2)
    IN StripDashes(v3)

\* _detect_course without its second loop: no course when no line
\* qualifies.
detect_course_strict(lines) ==
    LET k1 == FirstLine(lines, LAMBDA l :
                  /\ ~(is_frequency_line(l) \/ is_room_line(l)
                        \/ is_instructor_line(l) \/ is_formation_line(l))
                  /\ strip_inline_metadata(l) # <<>>)
    IN IF k1 # 0 THEN strip_inline_metadata(lines[k1]) ELSE <<>>

\* _detect_course
detect_course(lines) ==
    LET k1 == FirstLine(lines, LAMBDA l :
                  /\ ~(is_frequency_line(l) \/ is_room_line(l)
                        \/ is_instructor_line(l) \/ is_formation_line(l))
                  /\ strip_inline_metadata(l) # <<>>)
        k2 == FirstLine(lines, LAMBDA l :
                  /\ strip_inline_metadata(l) # <<>>
                  /\ ~is_formation_line(strip_inline_metadata(l)))
    IN IF k1 # 0 THEN strip_inline_metadata(lines[k1])
       ELSE IF k2 # 0 THEN strip_inline_metadata(lines[k2])
       ELSE <<"Unknown">>

\* ------------------------------------------------------------ cell entries
\* _split_cell_chunks: the text is cut at every run of two or more
\* newlines; the chunks that hold a word are kept, normalized.
RECURSIVE ChunkAcc(_, _, _)
ChunkAcc(lines, cur, acc) ==
    IF lines = <<>> THEN (IF cur = <<>> THEN acc ELSE Append(acc, JoinNL(cur)))
    ELSE IF Head(lines) = <<>>
         THEN ChunkAcc(Tail(lines), <<>>,
                       IF cur = <<>> THEN acc ELSE Append(acc, JoinNL(cur)))
         ELSE ChunkAcc(Tail(lines), Append(cur, Head(lines)), acc)

split_cell_chunks(text) == ChunkAcc(SplitLines(text), <<>>, <<>>)

\* The words INLINE_ENTRY_RE reads as "(" + instructor and instructor + "),".
OpenParenWords == {"(POP"}
CloseCommaWords == {"Ion),"}
ParenWords == TypeTagWords \cup OpenParenWords \cup CloseCommaWords
InnerWord(w) == CASE w = "(POP" -> "POP" [] w = "Ion)," -> "Ion" [] OTHER -> w

NoEntry == <<>>

\* INLINE_ENTRY_RE: the position of the word that opens the instructor,
\* 0 when there is none.  The instructor holds no parenthesis, so it opens
\* at the last "(" word of the line, and the course before it is not empty.
InlineOpen(stripped) ==
    SetMax({k \in 2..(Len(stripped) - 2) :
              /\ stripped[k] \in OpenParenWords
              /\ \A m \in (k + 1)..(Len(stripped) - 2) : stripped[m] \notin ParenWords})

\* _parse_inline_entry_line: <<entry>>, or NoEntry for None.
parse_inline_entry_line(line, time_slot) ==
    LET stripped == strip_subgroup_prefix(normalize_space(line))
        n == Len(stripped)
        i == InlineOpen(stripped)
        prefix == IF n >= 2 /\ stripped[1] \in WeekWords /\ stripped[2] \in {"1:", "2:"}
                  THEN 2 ELSE 0
        from == IF prefix + 1 <= i - 1 THEN prefix + 1 ELSE 1
        matches == /\ n >= 3
                   /\ IsRoomToken(stripped[n])
                   /\ stripped[n - 1] \in CloseCommaWords
                   /\ i >= 2
        course == strip_inline_metadata(SubSeq(stripped, from, i - 1))
    IN IF stripped = <<>> \/ ~matches \/ course = <<>> THEN NoEntry
       ELSE << [time |-> time_slot,
                frequency |-> detect_frequency(stripped),
                course |-> course,
                type |-> detect_type(stripped),
                room |-> <<stripped[n]>>,
                instructor |-> [k \in 1..(n - i) |-> InnerWord(stripped[i + k - 1])]] >>

\* _parse_inline_chunk
RECURSIVE InlineLines(_, _)
InlineLines(lines, time_slot) ==
    IF lines = <<>> THEN <<>>
    ELSE parse_inline_entry_line(Head(lines), time_slot)
           \o InlineLines(Tail(lines), time_slot)

\* An inline classifier that recognizes no line.
parse_inline_none(chunk, time_slot) == <<>>

parse_inline_chunk(chunk, time_slot) == InlineLines(SplitLines(chunk), time_slot)

\* The chunk's lines with the formation filter of line 395 left out.
KeepFormation(lines) == lines

\* Line 395: the formation and subgroup markers are dropped.
WithoutFormation(lines) == SelectSeq(lines, LAMBDA l : ~is_formation_line(l))

\* Lines 392-407: the line-based classification of one chunk.
parse_chunk_lines(chunk, time_slot) ==
    LET l0 == SelectSeq(SplitLines(chunk), LAMBDA l : l # <<>>)
        l1 == SelectSeq(l0, LAMBDA l : normalize_day(l) = "")
        l2 == SelectSeq(l1, LAMBDA l : ~FullTime(l))
        Kept(entry) == IF entry.course = <<>> THEN <<>> ELSE <<entry>>
        Classify(lines) ==
            IF lines = <<>> THEN <<>>
            ELSE Kept([time |-> time_slot,
                       frequency |-> detect_frequency(chunk),
                       course |-> detect_course(lines),
                       type |-> detect_type(chunk),
                       room |-> detect_room(lines),
                       instructor |-> detect_instructor(lines)])
    IN Classify(WithoutFormation(l2))

\* Lines 386-407: every chunk, the inline form first.
RECURSIVE ChunkEntries(_, _)
ChunkEntries(chunks, time_slot) ==
    IF chunks = <<>> THEN <<>>
    ELSE LET OrLines(inline_entries) ==
                 IF inline_entries # <<>> THEN inline_entries
                 ELSE parse_chunk_lines(Head(chunks), time_slot)
         IN OrLines(parse_inline_chunk(Head(chunks), time_slot))
            \o ChunkEntries(Tail(chunks), time_slot)

\* The loop of lines 408-423 keeping every entry.
DedupeNone(entries, seen) == entries

\* Lines 408-423: the first occurrence of every entry is kept.
RECURSIVE Dedupe(_, _)
Dedupe(entries, seen) ==
    IF entries = <<>> THEN <<>>
    ELSE IF Head(entries) \in seen THEN Dedupe(Tail(entries), seen)
    ELSE <<Head(entries)>> \o Dedupe(Tail(entries), seen \cup {Head(entries)})

\* _parse_cell_entries
parse_cell_entries(raw, time_slot) ==
    LET text == normalize_space_keep(raw)
    IN IF text = <<>> THEN <<>>
       ELSE IF text = <<"-">> THEN <<>>
       ELSE IF normalize_day(text) # "" /\ Len(Words(text)) <= 2 THEN <<>>
       ELSE IF FullTime(text) THEN <<>>
       ELSE Dedupe(ChunkEntries(split_cell_chunks(text), time_slot), {})

\* ------------------------------------------------------------ _expand_table
\* fill_span: copy pending vertical spans into the row from start_col on,
\* as long as the columns are contiguous.
RECURSIVE fill_span(_, _, _)
fill_span(row, sp, col) ==
    IF col \in DOMAIN sp
    THEN LET left == sp[col].rows - 1
             sp2 == IF left <= 0
                    THEN [c \in (DOMAIN sp) \ {col} |-> sp[c]]
                    ELSE [sp EXCEPT ![col].rows = left]
         IN fill_span(Append(row, sp[col].text), sp2, col + 1)
    ELSE [row |-> row, spans |-> sp, col |-> col]

\* The colspan loop of one real cell (lines 134-138): k copies still to place.
RECURSIVE PlaceCell(_, _, _, _, _)
PlaceCell(row, sp, col, cell, k) ==
    IF k = 0
    THEN [row |-> row, spans |-> sp, col |-> col]
    ELSE LET sp2 == IF cell.rowspan > 1
                    THEN [c \in (DOMAIN sp) \cup {col} |->
                            IF c = col
                            THEN [rows |-> cell.rowspan - 1, text |-> cell.text]
                            ELSE sp[c]]
                    ELSE sp
         IN PlaceCell(Append(row, cell.text), sp2, col + 1, cell, k - 1)

\* The loop over the real cells of one <tr> (lines 123-138).  `placed`
\* records the column at which each real cell lands.
RECURSIVE ConsumeCells(_, _, _, _, _)
ConsumeCells(row, sp, col, cells, placed) ==
    IF cells = <<>>
    THEN [row |-> row, spans |-> sp, col |-> col, placed |-> placed]
    ELSE LET f == fill_span(row, sp, col)
             p == PlaceCell(f.row, f.spans, f.col, Head(cells), Head(cells).colspan)
         IN ConsumeCells(p.row, p.spans, p.col, Tail(cells),
                         Append(placed, f.col))

\* One iteration of `for tr in table.find_all("tr")` (lines 121-140).
ExpandRow(tr, sp) ==
    LET Cells(f0) == ConsumeCells(f0.row, f0.spans, f0.col, tr, <<>>)
        Row(c, f1) == [row |-> f1.row, spans |-> f1.spans, placed |-> c.placed]
        Trailing(c) == Row(c, fill_span(c.row, c.spans, c.col))
    IN Trailing(Cells(fill_span(<<>>, sp, 0)))

PadGridNoPad(g) == g

\* Lines 142-143: pad every row to the maximum width.
PadGrid(g) ==
    LET max_cols == SetMax({Len(g[i]) : i \in 1..Len(g)})
    IN [i \in 1..Len(g) |-> g[i] \o Repeat(EmptyText, max_cols - Len(g[i]))]

\* _expand_table as a function of the whole table.
RECURSIVE ExpandRows(_, _, _)
ExpandRows(rows, sp, acc) ==
    IF rows = <<>> THEN acc
    ELSE LET Rest(r) == ExpandRows(Tail(rows), r.spans, Append(acc, r.row))
         IN Rest(ExpandRow(Head(rows), sp))

expand_table(t) == PadGrid(ExpandRows(t, <<>>, <<>>))

\* ------------------------------------------------------------ documents
\* A document is the sequence of the sibling nodes of its body, in document
\* order.  A node is a heading-like tag (h1-h6, p, div, strong, b) with its
\* text, a table with its caption ("" when it has none) and its <tr> rows,
\* or a string between two tags.
Heading(text) == [kind |-> "heading", text |-> text, caption |-> <<>>, rows |-> <<>>]
StringNode(text) == [kind |-> "string", text |-> text, caption |-> <<>>, rows |-> <<>>]
TableNode(caption, rows) ==
    [kind |-> "table", text |-> <<>>, caption |-> caption, rows |-> rows]

\* One cell with no span attributes.
Cell(text) == [text |-> text, rowspan |-> 1, colspan |-> 1]

RECURSIVE Concat(_)
Concat(seqs) == IF seqs = <<>> THEN <<>> ELSE Head(seqs) \o Concat(Tail(seqs))

\* tr.get_text(" ", strip=True), normalized: the words of the row's cells.
RowText(tr) == normalize_space(Concat([k \in 1..Len(tr) |-> tr[k].text]))

\* node.get_text(" ", strip=True), normalized.
NodeText(node) ==
    IF node.kind = "table"
    THEN normalize_space(node.caption)
           \o Concat([k \in 1..Len(node.rows) |-> RowText(node.rows[k])])
    ELSE normalize_space(node.text)

\* The grid of a table node: every cell text goes through _extract_cell_text.
TableGrid(node) ==
    expand_table([i \in 1..Len(node.rows) |->
                    [k \in 1..Len(node.rows[i]) |->
                       [text |-> extract_cell_text(node.rows[i][k].text),
                        rowspan |-> node.rows[i][k].rowspan,
                        colspan |-> node.rows[i][k].colspan]]])

HeaderScanRows == 4
GroupScanRows == 12
CaptionScanRows == 3
MaxHops == 6
GroupHitsCap == 40
DayHitWeight == 10

Min(a, b) == IF a <= b THEN a ELSE b
SetMin(S) == CHOOSE m \in S : \A x \in S : m <= x

\* sorted(set): the elements of a set of integers in ascending order.
RECURSIVE Sorted(_)
Sorted(S) == IF S = {} THEN <<>> ELSE <<SetMin(S)>> \o Sorted(S \ {SetMin(S)})

Range(f) == {f[x] : x \in DOMAIN f}

\* _main_table_score: every alias counts once when a folded word of the
\* table holds it (no word of the model holds an alias as a proper part).
main_table_score(node) ==
    LET text == NodeText(node)
        folded == {fold(text[k]) : k \in 1..Len(text)}
        day_hits == Cardinality({a \in 1..Len(DAY_ALIASES) :
                                   DAY_ALIASES[a][1] \in folded})
        group_hits == Len(FindGroups(text))
        row_count == Len(node.rows)
    IN (day_hits * DayHitWeight) + Min(group_hits, GroupHitsCap) + row_count

\* A header cell in which no group number is ever recognized.
extract_no_group(cell_text, expected_groups) == NoGroup

\* A header cell read as its first group number, whatever the expected
\* set and however many numbers the cell holds.
extract_first_group(cell_text, expected_groups) ==
    IF FindGroups(cell_text) = <<>> THEN NoGroup ELSE FindGroups(cell_text)[1]

\* _extract_group_from_header; NoGroup stands for None.
extract_group_from_header(cell_text, expected_groups) ==
    LET matches == FindGroups(cell_text)
        hits == {k \in 1..Len(matches) : matches[k] \in expected_groups}
    IN IF matches = <<>> THEN NoGroup
       ELSE IF expected_groups # {}
            THEN (IF hits = {} THEN NoGroup ELSE matches[SetMin(hits)])
       ELSE IF Len(matches) = 1 THEN matches[1]
       ELSE NoGroup

\* The mapping one grid row gives (lines 164-169): column -> group.
RowMapping(row, expected_set) ==
    LET cols == {c \in 0..(Len(row) - 1) :
                   extract_group_from_header(row[c + 1], expected_set) # NoGroup}
    IN [c \in cols |-> extract_group_from_header(row[c + 1], expected_set)]

\* Lines 162-171: the first row mapping of the largest size.
RECURSIVE BestMapping(_, _)
BestMapping(rows, best) ==
    IF rows = <<>> THEN best
    ELSE LET mapping == RowMapping(Head(rows), best.expected)
         IN BestMapping(Tail(rows),
              IF Cardinality(DOMAIN mapping) > Cardinality(DOMAIN best.map)
              THEN [best EXCEPT !.map = mapping] ELSE best)

\* _detect_group_columns without its fallback for malformed headers.
FallbackNone(g, expected_set) == <<>>

\* A fallback that takes the leading columns of the first row.
FallbackLeading(g, expected_set) ==
    [c \in 0..(Min(Len(g[1]), Cardinality(expected_set)) - 1) |->
       Sorted(expected_set)[c + 1]]

\* Lines 179-183: the trailing columns of the first row, in ascending
\* order, zipped with the sorted expected groups.
FallbackMapping(g, expected_set) ==
    LET first_row_len == Len(g[1])
        low == IF first_row_len - Cardinality(expected_set) > 0
               THEN first_row_len - Cardinality(expected_set) ELSE 0
        n == Min(first_row_len - low, Cardinality(expected_set))
    IN [c \in low..(low + n - 1) |-> Sorted(expected_set)[c - low + 1]]

\* _detect_group_columns
detect_group_columns(g, expected_set) ==
    LET scanned == SubSeq(g, 1, Min(GroupScanRows, Len(g)))
        Kept(best) ==
            IF expected_set # {}
            THEN [c \in {x \in DOMAIN best : best[x] \in expected_set} |-> best[c]]
            ELSE best
        OrFallback(kept) ==
            IF DOMAIN kept # {} THEN kept
            ELSE IF expected_set # {} /\ g # <<>> THEN FallbackMapping(g, expected_set)
            ELSE <<>>
    IN OrFallback(Kept(BestMapping(scanned, [map |-> <<>>, expected |-> expected_set]).map))

\* _extract_time: the first time range of the row; "" stands for None.
extract_time(row) == SearchTime(Concat(row))

\* grouped_entries.get(group, {}).get(day, [])
EntriesOf(grouped, group, day) ==
    IF group \in DOMAIN grouped /\ day \in DOMAIN grouped[group]
    THEN grouped[group][day] ELSE <<>>

\* An extend that puts the new entries first.
ExtendFront(grouped, group, day, entries) ==
    [g \in (DOMAIN grouped) \cup {group} |->
       IF g = group
       THEN [d \in (IF g \in DOMAIN grouped THEN DOMAIN grouped[g] ELSE {}) \cup {day} |->
               IF d = day THEN entries \o EntriesOf(grouped, g, d)
               ELSE grouped[g][d]]
       ELSE grouped[g]]

\* grouped_entries[group][day].extend(entries) on a defaultdict.
Extend(grouped, group, day, entries) ==
    [g \in (DOMAIN grouped) \cup {group} |->
       IF g = group
       THEN [d \in (IF g \in DOMAIN grouped THEN DOMAIN grouped[g] ELSE {}) \cup {day} |->
               IF d = day THEN EntriesOf(grouped, g, d) \o entries
               ELSE grouped[g][d]]
       ELSE grouped[g]]

\* The loop over DAY_ORDER of _grouped_to_days for one group.
RECURSIVE DaysOf(_, _, _)
DaysOf(grouped, group, days) ==
    IF days = <<>> THEN <<>>
    ELSE (IF EntriesOf(grouped, group, Head(days)) # <<>>
          THEN << [day |-> Head(days),
                   entries |-> EntriesOf(grouped, group, Head(days))] >>
          ELSE <<>>)
         \o DaysOf(grouped, group, Tail(days))

\* _grouped_to_days walking the week from its end.
grouped_to_days_reversed(grouped, target_groups) ==
    [g \in target_groups |->
       DaysOf(grouped, g, [k \in 1..Len(DAY_ORDER) |-> DAY_ORDER[Len(DAY_ORDER) + 1 - k]])]

\* _grouped_to_days
grouped_to_days(grouped, target_groups) ==
    [g \in target_groups |-> DaysOf(grouped, g, DAY_ORDER)]

\* ------------------------------------------------------ sectioned layout
\* _extract_table_group for the table at index t of the document; NoGroup
\* stands for None.
extract_table_group(d, t) ==
    LET node == d[t]
        from_caption == IF node.caption # <<>>
                        THEN extract_group_heading(normalize_space(node.caption))
                        ELSE NoGroup
        rows == {k \in 1..Min(CaptionScanRows, Len(node.rows)) :
                   extract_group_heading(RowText(node.rows[k])) # NoGroup}
        \* the siblings reached within MaxHops hops, nearest first
        sibs == {k \in 1..(t - 1) :
                   /\ t - k <= MaxHops
                   /\ d[k].kind # "string"
                   /\ extract_group_heading(NodeText(d[k])) # NoGroup}
    IN IF from_caption # NoGroup THEN from_caption
       ELSE IF rows # {} THEN extract_group_heading(RowText(node.rows[SetMin(rows)]))
       ELSE IF sibs # {}
            THEN extract_group_heading(
                   NodeText(d[CHOOSE k \in sibs : \A m \in sibs : m <= k]))
       ELSE NoGroup

\* The header mapping one grid row gives (lines 504-508): key -> column of
\* its first occurrence.
HeaderMapping(row) ==
    LET keys == {header_name_to_key(row[c]) : c \in 1..Len(row)} \ {""}
    IN [k \in keys |-> SetMin({c \in 0..(Len(row) - 1) :
                                 header_name_to_key(row[c + 1]) = k})]

\* The header looked for in every row of the grid.
BestHeaderRowUnbounded(g) ==
    LET score == [i \in 1..Len(g) |-> Cardinality(DOMAIN HeaderMapping(g[i]))]
    IN IF g = <<>> THEN 0
       ELSE SetMin({i \in 1..Len(g) : \A m \in 1..Len(g) : score[m] <= score[i]})

\* Lines 498-513: the first of the scanned rows with the most header keys.
BestHeaderRow(g) ==
    LET scan_limit == Min(HeaderScanRows, Len(g))
        First(score) ==
            SetMin({i \in 1..scan_limit : \A m \in 1..scan_limit : score[m] <= score[i]})
    IN IF scan_limit = 0 THEN 0
       ELSE First([i \in 1..scan_limit |-> Cardinality(DOMAIN HeaderMapping(g[i]))])

\* Lines 521-569 for one grid row: <<entry>> with its day, or <<>> when the
\* row is skipped.
parse_group_row(row, best_header_map) ==
    LET day_col == best_header_map["day"]
        time_col == best_header_map["time"]
        day == normalize_day(row[day_col + 1])
        time_slot == SearchTime(row[time_col + 1])
        value(key) == IF key \in DOMAIN best_header_map /\ best_header_map[key] < Len(row)
                      THEN row[best_header_map[key] + 1] ELSE <<>>
        present == SelectSeq(row, LAMBDA cell : cell # <<>>)
        row_blob == Concat(present)
        lines_for_fallback == present
        orElse(a, b) == IF a # <<>> THEN a ELSE b
        Kept(entry) == IF entry.course = <<>> THEN <<>> ELSE <<entry>>
    IN IF day_col >= Len(row) \/ time_col >= Len(row) THEN <<>>
       ELSE IF day = "" THEN <<>>
       ELSE IF time_slot = "" THEN <<>>
       ELSE Kept([day |-> day,
                  time |-> time_slot,
                  frequency |-> detect_frequency(orElse(value("frequency"), row_blob)),
                  course |-> orElse(normalize_space(value("course")),
                                    detect_course(lines_for_fallback)),
                  type |-> detect_type(orElse(value("type"), row_blob)),
                  room |-> orElse(normalize_space(value("room")),
                                  detect_room(lines_for_fallback)),
                  instructor |-> orElse(normalize_space(value("instructor")),
                                        detect_instructor(lines_for_fallback))])

RECURSIVE GroupRows(_, _)
GroupRows(rows, best_header_map) ==
    IF rows = <<>> THEN <<>>
    ELSE parse_group_row(Head(rows), best_header_map)
           \o GroupRows(Tail(rows), best_header_map)

\* _parse_group_table_rows: the entries (each with its day); a rejected
\* table gives none.
parse_group_table_rows(g) ==
    LET Rows(best_header_idx, best_header_map) ==
            IF DOMAIN best_header_map = {} THEN <<>>
            ELSE IF ~({"day", "time"} \subseteq DOMAIN best_header_map) THEN <<>>
            ELSE GroupRows(SubSeq(g, best_header_idx + 1, Len(g)), best_header_map)
        Below(best_header_idx) ==
            Rows(best_header_idx,
                 IF best_header_idx = 0 THEN <<>> ELSE HeaderMapping(g[best_header_idx]))
    IN Below(BestHeaderRow(g))

\* --------------------------------------------- _expand_table, row by row
SpanValues == 1..MaxSpan

CellCount(t) ==
    LET RECURSIVE Sum(_)
        Sum(s) == IF s = <<>> THEN 0 ELSE Len(Head(s)) + Sum(Tail(s))
    IN Sum(t)

\* The k-th real cell of the table carries a text of its own.
CellText(k) == << <<ToString(k)>> >>

\* A <tr> with n real cells whose spans are rs and cs.
MakeRow(base, n, rs, cs) ==
    [k \in 1..n |-> [text |-> CellText(base + k),
                     rowspan |-> rs[k], colspan |-> cs[k]]]

NoResult ==
    [status |-> "none", layout |-> "", by_group |-> <<>>,
     detected_groups |-> <<>>, error |-> ""]

\* The variables of _parse_cell_entries before a cell is read.
CellIdle ==
    /\ cell_lines = <<>>
    /\ cell_time = ""
    /\ cell_out = <<>>

\* The variables of _detect_group_columns before a grid is read.
ColumnsIdle ==
    /\ col_width = 0
    /\ col_grid = <<>>
    /\ col_expected = {}
    /\ col_out = <<>>

NoStatus == [written |-> FALSE]

\* The variables of the scrape batch before the configuration is loaded.
ScrapeIdle ==
    /\ sc_entries = <<>>
    /\ sc_soft = FALSE
    /\ sc_files = <<>>
    /\ sc_index = 0
    /\ sc_success = 0
    /\ sc_written = 0
    /\ sc_empty = 0
    /\ sc_failures = <<>>
    /\ sc_summaries = <<>>
    /\ sc_warnings = <<>>
    /\ sc_status = NoStatus

\* No parse call has been started.
CallsIdle == calls = <<>>

\* The variables of _detect_type before a text is read.
TypeIdle == type_text = <<>> /\ type_out = ""

TailIdle == TypeIdle

LaterIdle == ScrapeIdle /\ CallsIdle /\ TailIdle

OtherIdle == CellIdle /\ ColumnsIdle /\ LaterIdle

\* The variables of the parser before a document is read.
ParseIdle ==
    /\ doc = <<>>
    /\ expected = {}
    /\ current_group = NoGroup
    /\ grouped_entries = <<>>
    /\ detected_groups = {}
    /\ group_columns = <<>>
    /\ current_day = ""
    /\ cgrid = <<>>
    /\ crow = 0
    /\ sources = <<>>
    /\ result = NoResult

InitExpand ==
    /\ mode = "expand"
    /\ pc = "rows"
    /\ table = <<>>
    /\ grid = <<>>
    /\ spans = <<>>
    /\ origins = {}
    /\ expanded = <<>>
    /\ ParseIdle
    /\ OtherIdle

\* One <tr> of the input is expanded and appended to the grid.
ExpandTr ==
    /\ mode = "expand" /\ pc = "rows"
    /\ Len(table) < MaxRows
    /\ \E n \in 0..(MaxCells - CellCount(table)) :
       \E rs \in [1..n -> SpanValues], cs \in [1..n -> SpanValues] :
         LET tr == MakeRow(CellCount(table), n, rs, cs)
             r == ExpandRow(tr, spans)
         IN /\ table' = Append(table, tr)
            /\ grid' = Append(grid, r.row)
            /\ spans' = r.spans
            /\ origins' = origins \cup
                 { [i |-> Len(table), j |-> r.placed[k], r |-> tr[k].rowspan,
                    c |-> tr[k].colspan, text |-> tr[k].text] : k \in 1..Len(tr) }
    /\ UNCHANGED <<mode, pc, expanded, parseVars, otherVars>>

\* The rows are exhausted: pad and return.
ExpandReturn ==
    /\ mode = "expand" /\ pc = "rows"
    /\ expanded' = PadGrid(grid)
    /\ pc' = "done"
    /\ UNCHANGED <<mode, table, grid, spans, origins, parseVars, otherVars>>

NextExpand == ExpandTr \/ ExpandReturn

SpecExpand == InitExpand /\ [][NextExpand]_vars

\* ------------------------------------------------- parse_timetable_html
\* The texts the documents of the model are built from.
HeadingTexts == { <<"Grupa", "511">>, <<"Grupa", "512">> }
cLuni == <<"Luni">>
cMarti == <<"Marti">>
cEarly == <<"08-10">>
cLate == <<"10-12">>
cDash == <<"-">>
cBlank == <<>>
cSeminar == <<"Algebra", "(S)">>
cLecture == <<"Programare", "(C)", NL, "Prof.", "Ada", "Lovelace", NL, "Sala", "CR1">>
cInline == <<"Logica", "(POP", "Ion),", "9/I", NL, "Algebra", "(POP", "Ion),", "CR1">>
cMarker == <<"IM1">>

MakeTr(texts) == [k \in 1..Len(texts) |-> Cell(texts[k])]

\* The header rows a table of the model may open with.
HeaderRows ==
    { MakeTr(<< <<"Ziua">>, <<"Ora">>, <<"511">>, <<"512">> >>),
      MakeTr(<< <<"A">>, <<"B">>, <<"511">>, <<"A">> >>) }

\* The rows that may follow.
DataRows ==
    { MakeTr(<<cLuni, cEarly, cSeminar, cDash>>),
      MakeTr(<<cMarti, cLate, cInline, cSeminar>>),
      MakeTr(<<cBlank, cEarly, cLecture, cMarker>>),
      MakeTr(<<cLuni, cBlank, cSeminar, cSeminar>>) }

ExpectedSets == { {}, {511}, {512}, {511, 512} }

\* Rows of the tables whose header is not the first row.
rowHeader == MakeTr(<< <<"Ziua">>, <<"Ora">>, <<"511">>, <<"512">> >>)
rowPlain == MakeTr(<< <<"A">>, <<"B">>, <<"511">>, <<"A">> >>)
rowRich == MakeTr(<< <<"Disciplina">>, <<"Sala">>, <<"Tip">>, <<"512">> >>)
rowLuni == MakeTr(<<cLuni, cEarly, cSeminar, cDash>>)
rowBare == MakeTr(<<cLuni, cEarly, cBlank, cDash>>)

\* A header below the scanned rows, a header below a row of other column
\* names, and a data row without a course text.
TallTables ==
    { TableNode(<<>>, <<rowPlain, rowPlain, rowPlain, rowPlain, rowHeader, rowLuni>>),
      TableNode(<<>>, <<rowRich, rowHeader, rowLuni>>),
      TableNode(<<>>, <<rowHeader, rowBare>>) }

\* The table elements a document of the model may hold.
TableNodes ==
    { TableNode(<<>>, header \o rows) :
        header \in {<<>>} \cup {<<h>> : h \in HeaderRows},
        rows \in UNION {[1..n -> DataRows] : n \in 0..MaxDataRows} }
    \cup TallTables

\* The nodes a table is resolved among: headings of two groups and strings
\* between the tags before it, and tables that carry a group in their
\* caption, in their first row or in their fourth row.
MaxSiblings == 7
GroupSiblings == {Heading(text) : text \in HeadingTexts} \cup {StringNode(<<>>)}
rowTitle == MakeTr(<< <<"Grupa", "511">> >>)
GroupCaptions == { <<>>, <<"Grupa", "512">>, <<"Grupa", "000">> }
GroupTables ==
    { TableNode(caption, rows) :
        caption \in GroupCaptions,
        rows \in { <<rowHeader, rowLuni>>,
                   <<rowTitle, rowHeader, rowLuni>>,
                   <<rowHeader, rowLuni, rowLuni, rowTitle>> } }

\* The cell texts of their grids, and the time slots of their rows.
GridTexts ==
    {<<>>} \cup UNION { {extract_cell_text(tr[k].text) : k \in 1..Len(tr)} :
                          tr \in HeaderRows \cup DataRows \cup {rowRich, rowBare} }

TimeSlots == {SearchTime(text) : text \in GridTexts}

\* The grid rows (0-based) whose entry parse_group_table_rows returns, in
\* order.
ParsedRowIndexes(g) ==
    LET At(h, m) ==
            IF ~({"day", "time"} \subseteq DOMAIN m) THEN <<>>
            ELSE SelectSeq([r \in 1..Len(g) |-> r - 1],
                           LAMBDA r : r + 1 > h /\ parse_group_row(g[r + 1], m) # <<>>)
        Below(h) == At(h, IF h = 0 THEN <<>> ELSE HeaderMapping(g[h]))
    IN Below(BestHeaderRow(g))

\* The pure functions of a table element and of a cell, tabulated over the
\* elements and cells of the model.
table_grid == [node \in TableNodes \cup GroupTables |-> TableGrid(node)]

table_score == [node \in TableNodes |-> main_table_score(node)]

group_table_rows ==
    LET Parsed(g) == [rows |-> parse_group_table_rows(g), at |-> ParsedRowIndexes(g)]
    IN [node \in TableNodes \cup GroupTables |-> Parsed(TableGrid(node))]

cell_entries ==
    [raw \in GridTexts, time_slot \in TimeSlots |-> parse_cell_entries(raw, time_slot)]

\* _select_main_table: the index of the first table of highest score; 0
\* when the page has no table (TimetableParseError).
select_main_table(d) ==
    LET tables == {k \in 1..Len(d) : d[k].kind = "table"}
        best == {k \in tables : \A m \in tables :
                   table_score[d[m]] <= table_score[d[k]]}
    IN IF tables = {} THEN 0 ELSE SetMin(best)

\* The data rows of the tables read so far.
DataRowCount(d) ==
    LET RECURSIVE Sum(_)
        Sum(k) == IF k = 0 THEN 0
                  ELSE Cardinality({i \in 1..Len(d[k].rows) :
                                     d[k].rows[i] \in DataRows \cup {rowBare}})
                       + Sum(k - 1)
    IN Sum(Len(d))

ExpandIdle ==
    /\ table = <<>>
    /\ grid = <<>>
    /\ spans = <<>>
    /\ origins = {}
    /\ expanded = <<>>

Init ==
    /\ mode = "parse"
    /\ pc = "section"
    /\ ExpandIdle
    /\ doc = <<>>
    /\ expected \in ExpectedSets
    /\ current_group = NoGroup
    /\ grouped_entries = <<>>
    /\ detected_groups = {}
    /\ group_columns = <<>>
    /\ current_day = ""
    /\ cgrid = <<>>
    /\ crow = 0
    /\ sources = <<>>
    /\ result = NoResult
    /\ OtherIdle

\* row_entry.pop("day")
WithoutDay(e) ==
    [time |-> e.time, frequency |-> e.frequency, course |-> e.course,
     type |-> e.type, room |-> e.room, instructor |-> e.instructor]

\* The appends of lines 601-603 left out.
AppendRowsNone(grouped, group, rows) == grouped

\* Lines 601-603: every parsed row goes to the end of its (group, day) list.
RECURSIVE AppendRows(_, _, _)
AppendRows(grouped, group, rows) ==
    IF rows = <<>> THEN grouped
    ELSE AppendRows(Extend(grouped, group, Head(rows).day, <<WithoutDay(Head(rows))>>),
                    group, Tail(rows))

\* The same appends, recording where each entry came from.
RECURSIVE AppendSources(_, _, _, _, _)
AppendSources(src, group, rows, at, node) ==
    IF rows = <<>> THEN src
    ELSE AppendSources(Extend(src, group, Head(rows).day, <<<<node, Head(at), 0, 1>>>>),
                       group, Tail(rows), Tail(at), node)

\* A sectioned pass whose result is never taken.
SectionedNeverFound(detected) == FALSE

\* Line 605 and line 657: the sectioned result is returned when a table
\* produced an entry.

SectionedFound(detected) == detected # {}

\* Target groups restricted to the detected ones.
TargetGroupsIntersect(expected_set, detected) ==
    IF expected_set # {} THEN expected_set \cap detected ELSE detected

\* Lines 608 and 624: sorted(expected_set or detected_groups), as a set.

TargetGroups(expected_set, detected) ==
    IF expected_set # {} THEN expected_set ELSE detected

\* Lines 580-585 for the next node of the page when it is one of `nodes`:
\* a heading-like tag sets the current group when its text holds a group
\* heading; a string between two tags is not among the nodes find_all
\* returns.
SectionNode(nodes, max_nodes) ==
    /\ pc = "section"
    /\ Len(doc) < max_nodes
    /\ \E node \in nodes :
         LET group == extract_group_heading(NodeText(node))
         IN /\ doc' = Append(doc, node)
            /\ current_group' = IF node.kind = "heading" /\ group # NoGroup
                                THEN group ELSE current_group
    /\ UNCHANGED <<mode, pc, expandVars, otherVars, expected, grouped_entries,
                   detected_groups, group_columns, current_day, cgrid, crow,
                   sources, result>>

\* Lines 587-603 for the next node of the page when it is one of the tables
\* `nodes`: the table is resolved to its group, expanded and parsed; a table
\* that is skipped changes nothing.
SectionTable(nodes, max_nodes) ==
    /\ pc = "section"
    /\ Len(doc) < max_nodes
    /\ \E node \in nodes :
       \E found \in {extract_table_group(Append(doc, node), Len(doc) + 1)},
          g \in {table_grid[node]},
          parsed \in {group_table_rows[node]} :
         LET d == Append(doc, node)
             table_group == IF found \notin {NoGroup, 0} THEN found ELSE current_group
             parsed_rows == parsed.rows
             skipped == \/ table_group = NoGroup
                        \/ (expected # {} /\ table_group \notin expected)
                        \/ g = <<>>
                        \/ parsed_rows = <<>>
         IN /\ DataRowCount(d) <= MaxDataRows
            /\ doc' = d
            /\ IF skipped
               THEN UNCHANGED <<detected_groups, grouped_entries, sources>>
               ELSE /\ detected_groups' = detected_groups \cup {table_group}
                    /\ grouped_entries' =
                         AppendRows(grouped_entries, table_group, parsed_rows)
                    /\ sources' = AppendSources(sources, table_group, parsed_rows,
                                                parsed.at, Len(d))
    /\ UNCHANGED <<mode, pc, expandVars, otherVars, expected, current_group,
                   group_columns, current_day, cgrid, crow, result>>

VisitHeading ==
    /\ mode = "parse"
    /\ SectionNode({Heading(text) : text \in HeadingTexts}, MaxNodes)

VisitTable ==
    /\ mode = "parse"
    /\ SectionTable(TableNodes, MaxNodes)

\* Lines 605-610 and 657-658: the document is exhausted and a sectioned
\* table produced an entry.
SectionReturn ==
    /\ mode = "parse" /\ pc = "section"
    /\ SectionedFound(detected_groups)
    /\ result' = [status |-> "ok", layout |-> "sectioned",
                  by_group |-> grouped_to_days(grouped_entries,
                                 TargetGroups(expected, detected_groups)),
                  detected_groups |-> Sorted(detected_groups),
                  error |-> ""]
    /\ pc' = "done"
    /\ UNCHANGED <<mode, expandVars, otherVars, doc, expected, current_group,
                   grouped_entries, detected_groups, group_columns,
                   current_day, cgrid, crow, sources>>

\* Lines 660 and 614-630: no sectioned table produced an entry; the main
\* table is selected and expanded and its group columns are detected.
ColumnarStart ==
    /\ mode = "parse" /\ pc = "section"
    /\ ~SectionedFound(detected_groups)
    /\ \E t \in {select_main_table(doc)} :
       \E g \in {IF t = 0 THEN <<>> ELSE table_grid[doc[t]]} :
       \E columns \in {IF g = <<>> THEN <<>> ELSE detect_group_columns(g, expected)} :
       LET error == IF t = 0 THEN "No table was found on the source page."
                    ELSE IF g = <<>> THEN "Timetable table is empty."
                    ELSE IF DOMAIN columns = {}
                    THEN "Could not detect group columns in timetable table."
                    ELSE ""
       IN IF error # ""
          THEN /\ result' = [NoResult EXCEPT !.status = "error", !.error = error]
               /\ pc' = "done"
               /\ UNCHANGED <<grouped_entries, detected_groups, group_columns,
                              current_day, cgrid, crow, sources>>
          ELSE /\ group_columns' = columns
               /\ detected_groups' = Range(columns)
               /\ grouped_entries' =
                    [group \in TargetGroups(expected, Range(columns)) |-> <<>>]
               /\ sources' = <<>>
               /\ current_day' = ""
               /\ cgrid' = g
               /\ crow' = 1
               /\ pc' = "walk"
               /\ UNCHANGED result
    /\ UNCHANGED <<mode, expandVars, otherVars, doc, expected, current_group>>

\* Lines 640-647 for the columns from `cols` on, in ascending order.
RECURSIVE WalkColumns(_, _, _, _, _, _)
WalkColumns(cols, row, columns, day, time_slot, acc) ==
    IF cols = <<>> THEN acc
    ELSE LET column == Head(cols)
             group == columns[column]
             parsed_entries == IF column >= Len(row) THEN <<>>
                               ELSE cell_entries[row[column + 1], time_slot]
             Appended(entries) ==
                 IF group \notin DOMAIN acc.grouped \/ entries = <<>>
                 THEN acc
                 ELSE [grouped |-> Extend(acc.grouped, group, day, entries),
                       sources |-> Extend(acc.sources, group, day,
                                     [k \in 1..Len(entries) |->
                                        <<acc.node, acc.row, column, k>>]),
                       node |-> acc.node, row |-> acc.row]
         IN WalkColumns(Tail(cols), row, columns, day, time_slot,
                        Appended(parsed_entries))

\* next((day for day in (normalize_day(cell) for cell in row) if day), None)
RowDay(row) ==
    LET hits == {c \in 1..Len(row) : normalize_day(row[c]) # ""}
    IN IF hits = {} THEN "" ELSE normalize_day(row[SetMin(hits)])

\* A current day that lasts for its own row only.
CarriedDayNone(row_day, day) == row_day

\* Lines 631-633: the day of the row, or else the current day.
CarriedDay(row_day, day) == IF row_day # "" THEN row_day ELSE day

\* Lines 631-647: one grid row of the columnar walk.
ColumnarRow ==
    /\ mode = "parse" /\ pc = "walk"
    /\ crow <= Len(cgrid)
    /\ \E row \in {cgrid[crow]} :
       \E row_day \in {RowDay(row)}, time_slot \in {extract_time(row)} :
       LET day == CarriedDay(row_day, current_day)
       IN /\ current_day' = day
          /\ IF day = "" \/ time_slot = ""
             THEN UNCHANGED <<grouped_entries, sources>>
             ELSE \E walked \in
                       {WalkColumns(Sorted(DOMAIN group_columns), row, group_columns,
                                    day, time_slot,
                                    [grouped |-> grouped_entries, sources |-> sources,
                                     node |-> select_main_table(doc),
                                     row |-> crow - 1])} :
                    /\ grouped_entries' = walked.grouped
                    /\ sources' = walked.sources
    /\ crow' = crow + 1
    /\ UNCHANGED <<mode, pc, expandVars, otherVars, doc, expected, current_group,
                   detected_groups, group_columns, cgrid, result>>

\* Lines 649-650: the rows are exhausted.
ColumnarReturn ==
    /\ mode = "parse" /\ pc = "walk"
    /\ crow > Len(cgrid)
    /\ result' = [status |-> "ok", layout |-> "columnar",
                  by_group |-> grouped_to_days(grouped_entries,
                                 TargetGroups(expected, detected_groups)),
                  detected_groups |-> Sorted(detected_groups),
                  error |-> ""]
    /\ pc' = "done"
    /\ UNCHANGED <<mode, expandVars, otherVars, doc, expected, current_group,
                   grouped_entries, detected_groups, group_columns,
                   current_day, cgrid, crow, sources>>

Next ==
    \/ VisitHeading
    \/ VisitTable
    \/ SectionReturn
    \/ ColumnarStart
    \/ ColumnarRow
    \/ ColumnarReturn

Spec == Init /\ [][Next]_vars

\* ------------------------------------- the group a table is resolved to
\* The sectioned walk over the siblings before a table and the table itself.
InitGroup ==
    /\ mode = "group"
    /\ pc = "section"
    /\ ExpandIdle
    /\ ParseIdle
    /\ OtherIdle

\* Lines 580-585: the nodes before the table.
GroupNode ==
    /\ mode = "group"
    /\ \A k \in 1..Len(doc) : doc[k].kind # "table"
    /\ SectionNode(GroupSiblings, MaxSiblings)

\* Lines 587-603: the table.
GroupTable ==
    /\ mode = "group"
    /\ \A k \in 1..Len(doc) : doc[k].kind # "table"
    /\ SectionTable(GroupTables, MaxSiblings + 1)

NextGroup ==
    \/ GroupNode
    \/ GroupTable

SpecGroup == InitGroup /\ [][NextGroup]_vars

\* ---------------------------------------------------- _parse_cell_entries
\* The lines the cells of the model are built from.
MaxCellLines == 3

lCourse == <<"Algebra", "(S)">>
lMarker == <<"IM1">>
lTagged == <<"IM1", "(C)">>
lProf == <<"Prof.", "Ada", "Lovelace">>
lRoom == <<"Sala", "CR1">>
lWeek1 == <<"sapt.", "1">>
lWeek2 == <<"sapt.", "2">>
lOdd == <<"impar">>
lEven == <<"par">>
lInline == <<"Logica", "(POP", "Ion),", "9/I">>
lInlineRoom == <<"Algebra", "(POP", "Ion),", "CR1">>
lInlineWeek == <<"sapt.", "1:", "Algebra", "(POP", "Ion),", "CR1">>
lInlineBare == <<"(C)", "(POP", "Ion),", "CR1">>
lEmpty == <<>>

CellLines ==
    {lCourse, lMarker, lTagged, lProf, lRoom, lWeek1, lWeek2, lOdd, lEven,
     lInline, lInlineRoom, lInlineWeek, lInlineBare, lEmpty}

CellTimes == {"08~10"}

InitCell ==
    /\ mode = "cell"
    /\ pc = "lines"
    /\ ExpandIdle
    /\ ParseIdle
    /\ cell_lines = <<>>
    /\ cell_time \in CellTimes
    /\ cell_out = <<>>
    /\ ColumnsIdle
    /\ LaterIdle

\* One more line of the cell's text.
CellLine ==
    /\ mode = "cell" /\ pc = "lines"
    /\ Len(cell_lines) < MaxCellLines
    /\ \E line \in CellLines : cell_lines' = Append(cell_lines, line)
    /\ UNCHANGED <<mode, pc, expandVars, parseVars, cell_time, cell_out, columnVars,
                   laterVars>>

\* The text of a cell whose lines are given.
RECURSIVE CellRaw(_)
CellRaw(lines) ==
    IF lines = <<>> THEN <<>>
    ELSE IF Len(lines) = 1 THEN Head(lines)
    ELSE Head(lines) \o <<NL>> \o CellRaw(Tail(lines))

\* _parse_cell_entries(text, time_slot) is called and returns.
CellReturn ==
    /\ mode = "cell" /\ pc = "lines"
    /\ cell_out' = parse_cell_entries(CellRaw(cell_lines), cell_time)
    /\ pc' = "done"
    /\ UNCHANGED <<mode, expandVars, parseVars, cell_lines, cell_time, columnVars,
                   laterVars>>

NextCell == CellLine \/ CellReturn

SpecCell == InitCell /\ [][NextCell]_vars

\* --------------------------------------------------- _detect_group_columns
\* The grids of the model: up to MaxGridRows rows of one width, of at most
\* MaxColumns cells each.
MaxColumns == 3
MaxGridRows == 2

hDay == <<"Ziua">>
hFirst == <<"511">>
hSecond == <<"512">>
hBoth == <<"511", "512">>
hBothReversed == <<"512", "511">>

HeaderCells == {hDay, hFirst, hSecond, hBoth, hBothReversed}

InitColumns ==
    /\ mode = "columns"
    /\ pc = "grid"
    /\ ExpandIdle
    /\ ParseIdle
    /\ CellIdle
    /\ col_width \in 0..MaxColumns
    /\ col_grid = <<>>
    /\ col_expected \in ExpectedSets
    /\ col_out = <<>>
    /\ LaterIdle

\* One more row of the grid; _expand_table gives every row the same width.
GridRow ==
    /\ mode = "columns" /\ pc = "grid"
    /\ Len(col_grid) < MaxGridRows
    /\ \E row \in [1..col_width -> HeaderCells] :
         col_grid' = Append(col_grid, row)
    /\ UNCHANGED <<mode, pc, expandVars, parseVars, cellVars, col_width,
                   col_expected, col_out, laterVars>>

\* _detect_group_columns(grid, expected_groups) is called and returns.
ColumnsReturn ==
    /\ mode = "columns" /\ pc = "grid"
    /\ col_out' = detect_group_columns(col_grid, col_expected)
    /\ pc' = "done"
    /\ UNCHANGED <<mode, expandVars, parseVars, cellVars, col_width, col_grid,
                   col_expected, laterVars>>

NextColumns == GridRow \/ ColumnsReturn

SpecColumns == InitColumns /\ [][NextColumns]_vars

\* ------------------------------------------------------------ scrape main
MaxSources == 2

\* The `year` of a source, which stands for the directory of its files:
\* academic year, program and year of study (_timetable_path).
Years == {1, 2}

\* A configured source; its groups may be empty (_parse_groups).
SourceEntries == [year : Years, groups : ExpectedSets]

\* _timetable_path
timetable_path(entry, group) == <<entry.year, group>>

Paths == Years \X {511, 512}

\* What _run_scrape returns: the detected groups and the groups of by_group
\* that have days.
ParsedTimetables ==
    { [detected_groups |-> d, by_group |-> b] : d \in ExpectedSets, b \in ExpectedSets }

\* The exceptions of _run_scrape that the loop catches (line 213).
RunScrapeErrors == {"RequestException", "TimetableParseError"}

\* A file that was there before the batch started.
OldFile == [kind |-> "old", source |-> 0]

\* load_source_entries returns the entries sorted by their key.
InitScrape ==
    /\ mode = "scrape"
    /\ pc = "loop"
    /\ ExpandIdle
    /\ ParseIdle
    /\ CellIdle
    /\ ColumnsIdle
    /\ sc_entries \in UNION { [1..n -> SourceEntries] : n \in 1..MaxSources }
    /\ \A i, j \in DOMAIN sc_entries : i <= j => sc_entries[i].year <= sc_entries[j].year
    /\ sc_soft \in BOOLEAN
    /\ \E present \in SUBSET Paths : sc_files = [p \in present |-> OldFile]
    /\ sc_index = 1
    /\ sc_success = 0
    /\ sc_written = 0
    /\ sc_empty = 0
    /\ sc_failures = <<>>
    /\ sc_summaries = <<>>
    /\ sc_warnings = <<>>
    /\ sc_status = NoStatus
    /\ CallsIdle
    /\ TailIdle

\* Line 88: sorted(set(entry.groups) or set(parsed.detected_groups))
GroupsToWrite(entry, parsed) ==
    Sorted(IF entry.groups # {} THEN entry.groups ELSE parsed.detected_groups)

\* The file write_json leaves for a group (lines 92-94): a timetable, or a
\* timetable with no days.
GroupFile(source, group, parsed) ==
    [kind |-> IF group \in parsed.by_group THEN "timetable" ELSE "empty",
     source |-> source]

\* The file of a write_json call that raised after path.open("w") had
\* truncated the file.
BrokenFile(source) == [kind |-> "partial", source |-> source]

\* _write_group_files up to and including its n-th write_json call.
WriteGroupFiles(files, source, entry, groups, parsed, n) ==
    LET written == {timetable_path(entry, groups[k]) : k \in 1..n}
    IN [p \in DOMAIN files \cup written |->
          IF p \in written THEN GroupFile(source, p[2], parsed) ELSE files[p]]

\* A failure handler that records nothing.
RecordNothing(failures, source, error) == failures

\* Lines 214-222: source_failures.append(...)
RecordFailure(failures, source, error) ==
    Append(failures, [source |-> source, error |-> error])

\* Lines 223-229: for every configured group whose file does not exist, an
\* empty timetable is written when --soft-fail-empty is set.
FailureFallback(files, source, entry, soft) ==
    LET missing == {timetable_path(entry, g) : g \in entry.groups} \ DOMAIN files
    IN IF soft
       THEN [p \in DOMAIN files \cup missing |->
               IF p \in missing THEN [kind |-> "fallback", source |-> source]
               ELSE files[p]]
       ELSE files

\* Lines 185-212: the source is fetched, parsed and written.
ScrapeSucceeds ==
    /\ mode = "scrape" /\ pc = "loop"
    /\ sc_index <= Len(sc_entries)
    /\ \E parsed \in ParsedTimetables :
       \E entry \in {sc_entries[sc_index]} :
       \E groups \in {GroupsToWrite(entry, parsed)} :
         /\ sc_files' = WriteGroupFiles(sc_files, sc_index, entry, groups, parsed,
                                        Len(groups))
         /\ sc_written' = sc_written + Len(groups)
         /\ sc_empty' = sc_empty +
              Cardinality({k \in 1..Len(groups) : groups[k] \notin parsed.by_group})
         /\ sc_summaries' = Append(sc_summaries,
              [source |-> sc_index, detectedGroups |-> parsed.detected_groups,
               groupsWritten |-> groups])
         /\ sc_warnings' =
              IF entry.groups \ parsed.detected_groups # {}
              THEN Append(sc_warnings,
                     [source |-> sc_index,
                      missing |-> Sorted(entry.groups \ parsed.detected_groups)])
              ELSE sc_warnings
    /\ sc_success' = sc_success + 1
    /\ sc_index' = sc_index + 1
    /\ UNCHANGED <<mode, pc, expandVars, parseVars, cellVars, columnVars, callVars,
                   tailVars, sc_entries, sc_soft, sc_failures, sc_status>>

\* _run_scrape raises a request error or a TimetableParseError: lines
\* 213-229.
ScrapeFails ==
    /\ mode = "scrape" /\ pc = "loop"
    /\ sc_index <= Len(sc_entries)
    /\ \E error \in RunScrapeErrors :
         sc_failures' = RecordFailure(sc_failures, sc_index, error)
    /\ sc_files' = FailureFallback(sc_files, sc_index, sc_entries[sc_index], sc_soft)
    /\ sc_index' = sc_index + 1
    /\ UNCHANGED <<mode, pc, expandVars, parseVars, cellVars, columnVars, callVars,
                   tailVars, sc_entries, sc_soft, sc_success, sc_written, sc_empty,
                   sc_summaries, sc_warnings, sc_status>>

\* The n-th write_json call of _write_group_files raises a ValueError while
\* json.dump encodes the payload (a string that UTF-8 cannot encode): the
\* files before it are written, its own file is left truncated, the counts
\* are not updated and the handler of lines 213-229 runs.
ScrapeWriteFails ==
    /\ mode = "scrape" /\ pc = "loop"
    /\ sc_index <= Len(sc_entries)
    /\ \E parsed \in ParsedTimetables :
       \E entry \in {sc_entries[sc_index]} :
       \E groups \in {GroupsToWrite(entry, parsed)} :
       \E n \in 1..Len(groups) :
       \E before \in {WriteGroupFiles(sc_files, sc_index, entry, groups, parsed, n - 1)} :
       \E broken \in {[p \in DOMAIN before \cup {timetable_path(entry, groups[n])} |->
                         IF p = timetable_path(entry, groups[n])
                         THEN BrokenFile(sc_index) ELSE before[p]]} :
         sc_files' = FailureFallback(broken, sc_index, entry, sc_soft)
    /\ sc_failures' = RecordFailure(sc_failures, sc_index, "ValueError")
    /\ sc_index' = sc_index + 1
    /\ UNCHANGED <<mode, pc, expandVars, parseVars, cellVars, columnVars, callVars,
                   tailVars, sc_entries, sc_soft, sc_success, sc_written, sc_empty,
                   sc_summaries, sc_warnings, sc_status>>

\* The n-th write_json call raises an OSError, which line 213 does not
\* catch: the files before it are written, its own file is untouched or
\* left truncated, and main ends without a status file.
ScrapeAborts ==
    /\ mode = "scrape" /\ pc = "loop"
    /\ sc_index <= Len(sc_entries)
    /\ \E parsed \in ParsedTimetables :
       \E entry \in {sc_entries[sc_index]} :
       \E groups \in {GroupsToWrite(entry, parsed)} :
       \E n \in 1..Len(groups) :
       \E before \in {WriteGroupFiles(sc_files, sc_index, entry, groups, parsed, n - 1)} :
         \/ sc_files' = before
         \/ sc_files' = [p \in DOMAIN before \cup {timetable_path(entry, groups[n])} |->
                           IF p = timetable_path(entry, groups[n])
                           THEN BrokenFile(sc_index) ELSE before[p]]
    /\ pc' = "aborted"
    /\ UNCHANGED <<mode, expandVars, parseVars, cellVars, columnVars, callVars,
                   tailVars, sc_entries, sc_soft, sc_index, sc_success, sc_written,
                   sc_empty, sc_failures, sc_summaries, sc_warnings, sc_status>>

\* Lines 231-244: the status payload, written once the loop has ended.
WriteStatus ==
    /\ mode = "scrape" /\ pc = "loop"
    /\ sc_index > Len(sc_entries)
    /\ sc_status' = [written |-> TRUE,
                     sourcesTotal |-> Len(sc_entries),
                     sourcesSucceeded |-> sc_success,
                     sourcesFailed |-> Len(sc_failures),
                     timetableFilesWritten |-> sc_written,
                     timetableFilesEmpty |-> sc_empty]
    /\ pc' = "done"
    /\ UNCHANGED <<mode, expandVars, parseVars, cellVars, columnVars, callVars,
                   tailVars, sc_entries, sc_soft, sc_files, sc_index, sc_success,
                   sc_written, sc_empty, sc_failures, sc_summaries, sc_warnings>>

NextScrape ==
    \/ ScrapeSucceeds
    \/ ScrapeFails
    \/ ScrapeWriteFails
    \/ ScrapeAborts
    \/ WriteStatus

SpecScrape == InitScrape /\ [][NextScrape]_vars

\* ------------------------------------------------ concurrent parse calls
Callers == {1, 2}
MaxCallRows == 2

SpanCell(text, rowspan, colspan) ==
    [text |-> text, rowspan |-> rowspan, colspan |-> colspan]

trHeader == << SpanCell(<<"Ziua">>, 2, 1), SpanCell(<<"511">>, 1, 1) >>
trGroup == << SpanCell(<<"512">>, 1, 1) >>
trWide == << SpanCell(<<"511">>, 1, 2) >>
trTall == << SpanCell(<<"Luni">>, 1, 1), SpanCell(<<"512">>, 2, 1) >>

CallRows == {trHeader, trGroup, trWide, trTall}

\* The input of a call: the <tr> rows of the main table of its document
\* and its expected groups.
CallInputs ==
    [table : UNION { [1..n -> CallRows] : n \in 1..MaxCallRows },
     expected : {{}, {511, 512}}]

NoCallResult == [returned |-> FALSE]

\* The locals of a call that has just entered _expand_table (lines
\* 107-108): an empty grid and an empty `spans`.
NewCall(input) ==
    [input |-> input, pc |-> "rows", next |-> 1, grid |-> <<>>,
     spans |-> <<>>, result |-> NoCallResult]

InitCalls ==
    /\ mode = "calls"
    /\ pc = "run"
    /\ ExpandIdle
    /\ ParseIdle
    /\ CellIdle
    /\ ColumnsIdle
    /\ ScrapeIdle
    /\ TailIdle
    /\ calls \in [Callers -> {NewCall(input) : input \in CallInputs}]

\* One `spans` for all calls, as a module-level dictionary would be.
SpansShared(cs, c) == cs[1].spans

\* `spans` is a local of _expand_table (line 108): every call has its own.
SpansOf(cs, c) == cs[c].spans

\* Call c runs one iteration of the loop over its rows (lines 121-140).
CallTr(c) ==
    /\ mode = "calls"
    /\ calls[c].pc = "rows"
    /\ calls[c].next <= Len(calls[c].input.table)
    /\ \E r \in {ExpandRow(calls[c].input.table[calls[c].next], SpansOf(calls, c))} :
         calls' = [calls EXCEPT ![c].grid = Append(@, r.row),
                                ![c].spans = r.spans,
                                ![c].next = @ + 1]
    /\ UNCHANGED <<mode, pc, expandVars, parseVars, cellVars, columnVars,
                   scrapeVars, tailVars>>

\* Call c pads its grid (lines 142-143), detects the group columns of the
\* grid (line 619) and returns.
CallReturn(c) ==
    /\ mode = "calls"
    /\ calls[c].pc = "rows"
    /\ calls[c].next > Len(calls[c].input.table)
    /\ \E g \in {PadGrid(calls[c].grid)} :
         calls' = [calls EXCEPT
                     ![c].pc = "done",
                     ![c].result =
                        [returned |-> TRUE, grid |-> g,
                         group_columns |->
                           detect_group_columns(g, calls[c].input.expected)]]
    /\ UNCHANGED <<mode, pc, expandVars, parseVars, cellVars, columnVars,
                   scrapeVars, tailVars>>

NextCalls == \E c \in Callers : CallTr(c) \/ CallReturn(c)

SpecCalls == InitCalls /\ [][NextCalls]_vars

\* ------------------------------------------------------------ _detect_type
MaxTypeWords == 3

\* Words of a text given to _detect_type: a course word, the markers in
\* parentheses and the free keywords.
TypeWords ==
    {"Algebra", "(C)", "(S)", "(L)", "(sem)", "(lab)", "curs", "Seminar",
     "laborator"}

InitType ==
    /\ mode = "type"
    /\ pc = "text"
    /\ ExpandIdle
    /\ ParseIdle
    /\ CellIdle
    /\ ColumnsIdle
    /\ ScrapeIdle
    /\ CallsIdle
    /\ type_text \in UNION { [1..n -> TypeWords] : n \in 0..MaxTypeWords }
    /\ type_out = ""

\* _detect_type(text) is called and returns.
TypeReturn ==
    /\ mode = "type" /\ pc = "text"
    /\ type_out' = detect_type(type_text)
    /\ pc' = "done"
    /\ UNCHANGED <<mode, expandVars, parseVars, cellVars, columnVars,
                   scrapeVars, callVars, type_text>>

NextType == TypeReturn

SpecType == InitType /\ [][NextType]_vars

\* ----------------------------------------------------- claims: _expand_table
ExpandDone == mode = "expand" /\ pc = "done"

\* C7 (as claimed): once _expand_table has returned, every real cell with
\* rowspan r and colspan c whose origin landed at grid position (i, j) has
\* its text at every position (i + di, j + dj), 0 <= di < r, 0 <= dj < c,
\* that lies inside the table.
SpanFillInvariant ==
    ExpandDone =>
      \A o \in origins : \A di \in 0..(o.r - 1), dj \in 0..(o.c - 1) :
        (o.i + di < Len(expanded)) =>
          /\ o.j + dj < Len(expanded[o.i + di + 1])
          /\ expanded[o.i + di + 1][o.j + dj + 1] = o.text

\* C8: the grid returned by _expand_table is rectangular: every row has the
\* maximum width met while expanding, the cells built for a row keep their
\* place, and the positions added on the right hold the empty text.
GridRectangular ==
    ExpandDone =>
      LET width == SetMax({Len(grid[i]) : i \in 1..Len(grid)})
      IN /\ Len(expanded) = Len(grid)
         /\ \A i \in 1..Len(expanded) :
              /\ Len(expanded[i]) = width
              /\ \A j \in 1..width :
                   expanded[i][j] =
                     IF j <= Len(grid[i]) THEN grid[i][j] ELSE EmptyText

\* C8 witness: a returned grid in which a shorter row was padded.
PaddedRowReturned ==
    /\ ExpandDone
    /\ \E i \in 1..Len(grid) : Len(grid[i]) < Len(expanded[i])

\* ------------------------------------------------ claims: parse_timetable_html
Done == mode = "parse" /\ pc = "done"
Returned == Done /\ result.status = "ok"
Raised == Done /\ result.status = "error"

\* The groups the result reports, and the groups it holds an entry for.
DetectedSet == Range(result.detected_groups)
GroupsWithEntries == {g \in DOMAIN result.by_group : result.by_group[g] # <<>>}

\* The group of the last heading before node t; NoGroup when there is none.
LastHeadingGroup(d, t) ==
    LET hits == {k \in 1..(t - 1) :
                   /\ d[k].kind = "heading"
                   /\ extract_group_heading(normalize_space(d[k].text)) # NoGroup}
    IN IF hits = {} THEN NoGroup
       ELSE extract_group_heading(normalize_space(d[SetMax(hits)].text))

ResolvedGroup(d, t) ==
    IF extract_table_group(d, t) # NoGroup THEN extract_table_group(d, t)
    ELSE LastHeadingGroup(d, t)

\* Table t of the page yields a sectioned entry for an accepted group.
ProducesSectionedEntry(d, t, expected_set) ==
    /\ d[t].kind = "table"
    /\ ResolvedGroup(d, t) # NoGroup
    /\ (expected_set = {} \/ ResolvedGroup(d, t) \in expected_set)
    /\ group_table_rows[d[t]].rows # <<>>

SectionedTables == {t \in 1..Len(doc) : ProducesSectionedEntry(doc, t, expected)}

\* C1: the columnar strategy runs only when no sectioned table produced an
\* entry; when one did, the call returns the sectioned result, whose
\* detected groups are those of the producing tables, and no step of the
\* columnar strategy (table selection, column detection, row walk, error)
\* has run.
SectionedFirst ==
    /\ (mode = "parse" /\ pc = "walk") => SectionedTables = {}
    /\ Done =>
         IF SectionedTables # {}
         THEN /\ result.status = "ok"
              /\ result.layout = "sectioned"
              /\ DetectedSet = {ResolvedGroup(doc, t) : t \in SectionedTables}
              /\ cgrid = <<>> /\ group_columns = <<>> /\ crow = 0
         ELSE result.layout # "sectioned"

\* C1 witness: the sectioned result returned for a page whose table the
\* columnar strategy could have read as well.
SectionedPreferred ==
    /\ Returned /\ result.layout = "sectioned"
    /\ \E t \in SectionedTables :
         DOMAIN detect_group_columns(table_grid[doc[t]], expected) # {}

OnPage(g) ==
    \E k \in 1..Len(doc) :
      \E i \in 1..Len(NodeText(doc[k])) :
        /\ NodeText(doc[k])[i] \in DOMAIN GroupOf
        /\ GroupOf[NodeText(doc[k])[i]] = g

\* C3 (as claimed): every detected group is carried by some text of the
\* page.
DetectedOnPage == Returned => \A g \in DetectedSet : OnPage(g)

\* C4 (as claimed): with an expected set the keys of by_group are the
\* expected groups that were detected; without one, the detected groups.
KeysAreIntersection ==
    Returned =>
      DOMAIN result.by_group =
        IF expected # {} THEN expected \cap DetectedSet ELSE DetectedSet

\* C4 (amended): with an expected set the keys of by_group are the whole
\* expected set, and a key that was not detected holds no day; without an
\* expected set the keys are the detected groups.
KeysAreTargets ==
    Returned =>
      /\ DOMAIN result.by_group = IF expected # {} THEN expected ELSE DetectedSet
      /\ \A g \in DOMAIN result.by_group : g \notin DetectedSet => result.by_group[g] = <<>>

\* C4 witness: a result keyed by an expected group that was not detected.
ExpectedKeyNotDetected ==
    /\ Returned
    /\ \E g \in expected : g \notin DetectedSet /\ g \in DOMAIN result.by_group

\* The page-level conditions of the columnar strategy.
NoTable == \A k \in 1..Len(doc) : doc[k].kind # "table"

MainGrid == IF NoTable THEN <<>> ELSE table_grid[doc[select_main_table(doc)]]

\* The cell carries a group number the detector accepts.
CarriesGroup(cell, expected_set) ==
    LET numbers == {k \in 1..Len(cell) : cell[k] \in DOMAIN GroupOf}
    IN IF expected_set = {} THEN Cardinality(numbers) = 1
       ELSE \E k \in numbers : GroupOf[cell[k]] \in expected_set

\* No scanned row carries a group, and the fallback has nothing to map.
ColumnsUnresolvable(g, expected_set) ==
    /\ \A r \in 1..Min(GroupScanRows, Len(g)) :
         \A c \in 1..Len(g[r]) : ~CarriesGroup(g[r][c], expected_set)
    /\ (expected_set = {} \/ Len(g[1]) = 0)

PageLevelFailure ==
    \/ NoTable
    \/ MainGrid = <<>>
    \/ ColumnsUnresolvable(MainGrid, expected)

\* The day in force at grid row r of the columnar walk.
RunningDay(g, r) ==
    LET hits == {m \in 1..r : RowDay(g[m]) # ""}
    IN IF hits = {} THEN "" ELSE RowDay(g[SetMax(hits)])

\* C5: an error is raised only before the row walk and only for a page
\* without table, an empty main table or unresolvable group columns; a page
\* with none of these returns a result, in which every cell of a row with a
\* day and a time contributes all its entries, whatever other rows or
\* cells were omitted.
ErrorsArePageLevel ==
    /\ Raised => (cgrid = <<>> /\ SectionedTables = {} /\ PageLevelFailure)
    /\ (Done /\ (SectionedTables # {} \/ ~PageLevelFailure)) => result.status = "ok"
    /\ (Returned /\ result.layout = "columnar") =>
         \A r \in 1..Len(cgrid) : \A c \in DOMAIN group_columns :
           LET day == RunningDay(cgrid, r)
               time_slot == extract_time(cgrid[r])
               group == group_columns[c]
           IN (day # "" /\ time_slot # "" /\ c < Len(cgrid[r])
                 /\ group \in DOMAIN result.by_group) =>
                \A k \in 1..Len(cell_entries[cgrid[r][c + 1], time_slot]) :
                  \E i \in 1..Len(EntriesOf(sources, group, day)) :
                    /\ EntriesOf(sources, group, day)[i]
                         = <<select_main_table(doc), r - 1, c, k>>
                    /\ EntriesOf(grouped_entries, group, day)[i]
                         = cell_entries[cgrid[r][c + 1], time_slot][k]

\* C5 witness: a columnar result with entries whose table has a row with a
\* day and no time.
RowOmittedOthersKept ==
    /\ Returned /\ result.layout = "columnar"
    /\ GroupsWithEntries # {}
    /\ \E r \in 1..Len(cgrid) : RowDay(cgrid[r]) # "" /\ extract_time(cgrid[r]) = ""

\* Some scanned row of the grid names both a day and a time column.
HasDayTimeHeader(g) ==
    \E i \in 1..Min(HeaderScanRows, Len(g)) :
      /\ \E c \in 1..Len(g[i]) : header_name_to_key(g[i][c]) = "day"
      /\ \E c \in 1..Len(g[i]) : header_name_to_key(g[i][c]) = "time"

\* The page holds one table, and that table has no day+time header row.
OnlyHeaderlessTable ==
    /\ Cardinality({k \in 1..Len(doc) : doc[k].kind = "table"}) = 1
    /\ ~HasDayTimeHeader(MainGrid)

\* C6 (as claimed): when the only table of the page has no day+time header
\* row, the call ends in an error.
HeaderlessTableRaises == (Done /\ OnlyHeaderlessTable) => result.status = "error"

\* C6 (amended): a table without day+time header row yields no sectioned
\* entry; when it is the only table the call falls through to the columnar
\* strategy, which raises exactly when the grid is empty or its group
\* columns are unresolvable and returns a result otherwise.
HeaderlessTableFallsThrough ==
    (Done /\ OnlyHeaderlessTable) =>
      /\ SectionedTables = {}
      /\ result.layout # "sectioned"
      /\ result.status = "error" <=>
           (MainGrid = <<>> \/ ColumnsUnresolvable(MainGrid, expected))
      /\ result.status = "ok" => result.layout = "columnar"

\* C6 witness: a result returned for a page whose only table has no
\* day+time header row.
HeaderlessTableParsed == Done /\ OnlyHeaderlessTable /\ result.status = "ok"

WeekdayNumber ==
    "monday" :> 1 @@ "tuesday" :> 2 @@ "wednesday" :> 3 @@ "thursday" :> 4
    @@ "friday" :> 5

\* C9: the day records of every group are weekdays in strictly increasing
\* Monday to Friday order, each with at least one entry.
DaysInWeekOrder ==
    Returned =>
      \A g \in DOMAIN result.by_group :
        LET days == result.by_group[g]
        IN \A i \in 1..Len(days) :
             /\ days[i].day \in DOMAIN WeekdayNumber
             /\ days[i].entries # <<>>
             /\ \A j \in (i + 1)..Len(days) :
                  WeekdayNumber[days[i].day] < WeekdayNumber[days[j].day]

\* a comes before b in the traversal: node, row, column, entry of the cell.
Before(a, b) ==
    \E n \in 1..4 : a[n] < b[n] /\ \A m \in 1..(n - 1) : a[m] = b[m]

\* C9 witness: a group with two day records whose later day was met first.
LaterDayMetFirst ==
    /\ Returned
    /\ \E g \in DOMAIN result.by_group :
         /\ Len(result.by_group[g]) >= 2
         /\ Before(EntriesOf(sources, g, result.by_group[g][2].day)[1],
                   EntriesOf(sources, g, result.by_group[g][1].day)[1])

\* The entry the page holds at a traversal position.
EntryAt(at) ==
    IF cgrid # <<>>
    THEN cell_entries[cgrid[at[2] + 1][at[3] + 1], extract_time(cgrid[at[2] + 1])][at[4]]
    ELSE LET parsed == group_table_rows[doc[at[1]]]
             i == CHOOSE k \in 1..Len(parsed.at) : parsed.at[k] = at[2]
         IN WithoutDay(parsed.rows[i])

\* The cell is made of inline lines only, one entry each.
InlineCell(cell, time_slot) ==
    /\ \A l \in 1..Len(SplitLines(cell)) :
         parse_inline_entry_line(SplitLines(cell)[l], time_slot) # NoEntry
    /\ Len(cell_entries[cell, time_slot]) = Len(SplitLines(cell))

\* C10: at every step each (group, day) bucket holds, in traversal order
\* (table, grid row, column, line of the cell), the entries the page holds
\* at those positions, and the returned day records hold the buckets
\* unchanged.
TraversalOrder ==
    /\ mode = "parse" =>
         \A g \in DOMAIN grouped_entries : \A d \in DOMAIN grouped_entries[g] :
           LET bucket == grouped_entries[g][d]
               from == EntriesOf(sources, g, d)
           IN /\ Len(from) = Len(bucket)
              /\ \A i \in 1..Len(bucket) :
                   /\ bucket[i] = EntryAt(from[i])
                   /\ \A j \in (i + 1)..Len(bucket) : Before(from[i], from[j])
                   /\ (cgrid # <<>> /\ InlineCell(cgrid[from[i][2] + 1][from[i][3] + 1],
                                                 bucket[i].time)) =>
                        <<bucket[i]>> =
                          parse_inline_entry_line(
                            SplitLines(cgrid[from[i][2] + 1][from[i][3] + 1])[from[i][4]],
                            bucket[i].time)
    /\ Returned =>
         \A g \in DOMAIN result.by_group :
           /\ \A n \in 1..Len(result.by_group[g]) :
                result.by_group[g][n].entries
                  = EntriesOf(grouped_entries, g, result.by_group[g][n].day)
           /\ \A d \in DOMAIN WeekdayNumber :
                EntriesOf(grouped_entries, g, d) # <<>> =>
                  \E n \in 1..Len(result.by_group[g]) : result.by_group[g][n].day = d

\* C10 witness: a returned bucket with two entries from two lines of one
\* cell followed by an entry from a later row.
BucketAcrossLinesAndRows ==
    /\ Returned
    /\ \E g \in DOMAIN sources : \E d \in DOMAIN sources[g] :
         \E i \in 1..Len(sources[g][d]) : \E j \in (i + 1)..Len(sources[g][d]) :
           \E k \in (j + 1)..Len(sources[g][d]) :
             /\ sources[g][d][i][2] = sources[g][d][j][2]
             /\ sources[g][d][i][3] = sources[g][d][j][3]
             /\ sources[g][d][j][2] < sources[g][d][k][2]

\* ------------------------------------------------ claims: _parse_cell_entries
CellDone == mode = "cell" /\ pc = "done"

\* The text _parse_cell_entries works on (line 375) and its lines.
CellNormalized == normalize_space_keep(CellRaw(cell_lines))

CellTextLines == SplitLines(CellNormalized)

\* The cell went through the line-based classification (lines 392-407).
LineClassified == CellDone /\ parse_inline_chunk(CellNormalized, cell_time) = <<>>

FormationLines == {k \in 1..Len(CellTextLines) : is_formation_line(CellTextLines[k])}

RemainingLines == {CellTextLines[k] : k \in (1..Len(CellTextLines)) \ FormationLines}

\* C11: in a cell classified line by line, the course, the room and the
\* instructor of the emitted entry are taken from the lines that are not
\* formation markers: an entry is emitted only when such a line remains,
\* its course is the stripped text of a remaining line (or "Unknown"), its
\* room is captured from, equal to, or the single word of a remaining line
\* (or empty), and its instructor is a remaining line (or empty).
FormationSuppressed ==
    LineClassified =>
      \A k \in 1..Len(cell_out) :
        /\ RemainingLines # {}
        /\ cell_out[k].course \in
             {strip_inline_metadata(l) : l \in RemainingLines} \cup {<<"Unknown">>}
        /\ cell_out[k].room \in
             {RoomCapture(l) : l \in RemainingLines} \cup RemainingLines \cup {<<>>}
        /\ cell_out[k].instructor \in RemainingLines \cup {<<>>}

\* C11 witness: a cell with a marker line and other lines was classified
\* line by line, and the entry took its fields from the other lines.
MarkerLineSkipped ==
    /\ LineClassified
    /\ FormationLines # {}
    /\ Len(cell_out) = 1
    /\ cell_out[1].course = <<"Algebra">>
    /\ cell_out[1].instructor = lProf

\* The entries of the cell before lines 408-423 act on them.
CellClassified == ChunkEntries(split_cell_chunks(CellNormalized), cell_time)

\* The positions at which an entry occurs for the first time.
FirstPositions(entries) ==
    {i \in 1..Len(entries) : \A j \in 1..(i - 1) : entries[j] # entries[i]}

\* C12: the list _parse_cell_entries returns holds no two entries with the
\* same (time, frequency, course, type, room, instructor), and it is the
\* list of the first occurrences of the classified entries, in their order.
CellEntriesDistinct ==
    CellDone =>
      /\ \A i, j \in 1..Len(cell_out) : i # j => cell_out[i] # cell_out[j]
      /\ LET first == Sorted(FirstPositions(CellClassified))
         IN cell_out = [k \in 1..Len(first) |-> CellClassified[first[k]]]

\* C12 witness: a repeated entry was dropped from between two others.
RepeatedEntryDropped ==
    /\ CellDone
    /\ Len(CellClassified) = 3
    /\ CellClassified[1] = CellClassified[3]
    /\ Len(cell_out) = 2

\* The text _detect_frequency is given: the whole chunk in the line-based
\* classification (line 400), the line itself for a cell of one inline line
\* (line 357).
FrequencyText == CellNormalized

FrequencyTextKnown == LineClassified \/ (CellDone /\ Len(CellTextLines) = 1)

\* A week-1 marker: "sapt. 1" (also across a line break) or "impar"; a
\* week-2 marker: "sapt. 2" or "par".
HasWeek1Marker(s) ==
    \/ \E k \in 1..Len(s) : s[k] \in {"impar", "impara"}
    \/ \E k \in 1..(Len(Words(s)) - 1) :
         Words(s)[k] = "sapt." /\ Words(s)[k + 1] \in {"1", "1:"}

HasWeek2Marker(s) ==
    \/ \E k \in 1..Len(s) : s[k] \in {"par", "para"}
    \/ \E k \in 1..(Len(Words(s)) - 1) :
         Words(s)[k] = "sapt." /\ Words(s)[k + 1] \in {"2", "2:"}

\* C14: a text with only a week-1 marker gives week1, a text with only a
\* week-2 marker gives week2, a text with both or with neither gives
\* weekly, and no other frequency is produced.
FrequencyByMarkers ==
    CellDone =>
      \A k \in 1..Len(cell_out) :
        /\ cell_out[k].frequency \in {"weekly", "week1", "week2"}
        /\ FrequencyTextKnown =>
             cell_out[k].frequency =
               IF HasWeek1Marker(FrequencyText) /\ ~HasWeek2Marker(FrequencyText)
               THEN "week1"
               ELSE IF HasWeek2Marker(FrequencyText) /\ ~HasWeek1Marker(FrequencyText)
               THEN "week2"
               ELSE "weekly"

\* C14 witness: a text carrying both markers was classified as weekly.
BothMarkersWeekly ==
    /\ LineClassified
    /\ HasWeek1Marker(FrequencyText) /\ HasWeek2Marker(FrequencyText)
    /\ Len(cell_out) = 1
    /\ cell_out[1].frequency = "weekly"
    /\ cell_out[1].course = <<"Algebra">>

\* ------------------------------------------------- claims: entry fields
\* The entries of a returned timetable, over all groups and days.
ReturnedEntries ==
    UNION { UNION { Range(result.by_group[g][i].entries) :
                      i \in 1..Len(result.by_group[g]) } :
              g \in DOMAIN result.by_group }

\* C15: every entry of a returned timetable, whichever layout and
\* classifier produced it, has its frequency among weekly, week1 and week2,
\* its type among lecture, seminar and lab, and a course that is not empty.
EntryFieldsValid ==
    Returned =>
      \A e \in ReturnedEntries :
        /\ e.frequency \in {"weekly", "week1", "week2"}
        /\ e.type \in {"lecture", "seminar", "lab"}
        /\ e.course # <<>>

\* C15 witness: a returned timetable holds an entry of the inline
\* classifier and an entry of the line-based classifier whose room and
\* instructor are empty.
InlineAndLineEntries ==
    /\ Returned
    /\ result.layout = "columnar"
    /\ \E e \in ReturnedEntries : e.instructor = <<"POP", "Ion">>
    /\ \E e \in ReturnedEntries : e.room = <<>> /\ e.instructor = <<>>

\* --------------------------------------------- claims: group columns
ColumnsDone == mode = "columns" /\ pc = "done"

GridColumns == 0..(col_width - 1)

\* The 3-4 digit numbers of the header cell in row r, column c (from 0).
CellNumbers(r, c) == FindGroups(col_grid[r][c + 1])

\* Those of them that belong to the expected set.
ExpectedNumbers(r, c) == Range(CellNumbers(r, c)) \cap col_expected

\* Some cell of the grid holds a number of the expected set, so that a
\* mapping read from the headers survives.
HeaderHit ==
    \E r \in 1..Len(col_grid) : \E c \in GridColumns : ExpectedNumbers(r, c) # {}

\* Some cell holds exactly one number of the expected set, so that a
\* mapping read from the headers survives even when the cells with several
\* such numbers are discarded.
SingleHeaderHit ==
    \E r \in 1..Len(col_grid) : \E c \in GridColumns :
      Cardinality(ExpectedNumbers(r, c)) = 1

\* C18: with an expected set, a header cell holding more than one number
\* of the set is discarded: a column is mapped only from a cell that holds
\* exactly one number of the set.
AmbiguousHeaderDiscarded ==
    (ColumnsDone /\ col_expected # {} /\ SingleHeaderHit) =>
      \A c \in DOMAIN col_out :
        \E r \in 1..Len(col_grid) : ExpectedNumbers(r, c) = {col_out[c]}

\* C18: the behaviour of the code: the column of such a cell is mapped to
\* the first number of the cell that belongs to the expected set.
AmbiguousHeaderMappedToFirst ==
    /\ ColumnsDone
    /\ col_expected = {511, 512}
    /\ col_grid = << <<hFirst, hBothReversed>> >>
    /\ col_out = (0 :> 511) @@ (1 :> 512)

\* The header cell of row r, column c is accepted with group n.
Accepted(r, c, n) ==
    IF col_expected # {}
    THEN n \in ExpectedNumbers(r, c)
    ELSE CellNumbers(r, c) = <<n>>

AcceptedCell(r, c) == \E n \in {511, 512} : Accepted(r, c, n)

\* C19: with an expected set every mapped group is a member of it, and a
\* mapping read from the headers maps exactly the cells of one row that
\* hold a member, each to a member it holds; with no expected set the
\* mapping maps exactly the cells of one row that hold a single number,
\* each to that number, and is empty when no row has such a cell.
HeaderAcceptance ==
    ColumnsDone =>
      /\ col_expected # {} => \A c \in DOMAIN col_out : col_out[c] \in col_expected
      /\ (col_expected = {} \/ HeaderHit) =>
           \/ /\ col_out = <<>>
              /\ \A r \in 1..Len(col_grid) : \A c \in GridColumns : ~AcceptedCell(r, c)
           \/ \E r \in 1..Len(col_grid) :
                /\ DOMAIN col_out = {c \in GridColumns : AcceptedCell(r, c)}
                /\ DOMAIN col_out # {}
                /\ \A c \in DOMAIN col_out : Accepted(r, c, col_out[c])

\* C19 witness: with no expected set, a row whose cells hold one number,
\* two numbers and no number maps the first cell only.
TwoNumberCellUnmapped ==
    /\ ColumnsDone
    /\ col_expected = {}
    /\ col_grid = << <<hSecond, hBoth, hDay>> >>
    /\ col_out = (0 :> 512)

\* No header gives a mapping and an expected set is known: the fallback
\* of lines 179-183 decides the mapping.
FallbackCase ==
    ColumnsDone /\ col_expected # {} /\ ~HeaderHit /\ col_grid # <<>>

\* The number of columns the fallback maps.
FallbackCount == Min(Cardinality(col_expected), col_width)

\* C20: in the fallback the last min(K, W) columns of a first row of W
\* columns are mapped, in ascending order, to the first min(K, W) sorted
\* expected groups, no group twice; every expected group has a column
\* exactly when W >= K.
FallbackTrailingColumns ==
    FallbackCase =>
      /\ DOMAIN col_out = (col_width - FallbackCount)..(col_width - 1)
      /\ \A c \in DOMAIN col_out :
           col_out[c] = Sorted(col_expected)[c - (col_width - FallbackCount) + 1]
      /\ \A c, d \in DOMAIN col_out : col_out[c] = col_out[d] => c = d
      /\ (Range(col_out) = col_expected) <=> (col_width >= Cardinality(col_expected))

\* C20 witness: a first row of one column with two expected groups maps
\* its column to the smaller group and leaves the larger without a column.
FallbackShortRow ==
    /\ FallbackCase
    /\ col_width = 1
    /\ col_expected = {511, 512}
    /\ col_out = (0 :> 511)

\* C20 as stated: in the fallback every expected group is assigned exactly
\* one column and every assigned column one expected group, whatever the
\* width of the grid.
FallbackAssignsEveryGroup ==
    FallbackCase =>
      /\ \A n \in col_expected :
           Cardinality({c \in DOMAIN col_out : col_out[c] = n}) = 1
      /\ \A c \in DOMAIN col_out : col_out[c] \in col_expected

\* ------------------------------------------------- claims: scrape batch
SummarySources == [k \in 1..Len(sc_summaries) |-> sc_summaries[k].source]

FailureSources == [k \in 1..Len(sc_failures) |-> sc_failures[k].source]

Ascending(seq) == \A i, j \in 1..Len(seq) : i < j => seq[i] < seq[j]

\* C16: while the batch has not been aborted by an exception the loop does
\* not catch, the sources before the current one have each been processed
\* exactly once, in order, and each is either a success or a recorded
\* failure; once the status is written every source has been processed and
\* sourcesSucceeded + sourcesFailed = sourcesTotal.
BatchAccounted ==
    (mode = "scrape" /\ pc \in {"loop", "done"}) =>
      /\ Range(SummarySources) \cup Range(FailureSources) = 1..(sc_index - 1)
      /\ Range(SummarySources) \cap Range(FailureSources) = {}
      /\ Ascending(SummarySources) /\ Ascending(FailureSources)
      /\ sc_success = Len(sc_summaries)
      /\ pc = "done" =>
           /\ sc_index = Len(sc_entries) + 1
           /\ sc_status.sourcesTotal = Len(sc_entries)
           /\ sc_status.sourcesSucceeded + sc_status.sourcesFailed
                = sc_status.sourcesTotal

\* C16 witness: the first of two sources raised a TimetableParseError, the
\* second was still scraped, and the status counts one of each.
ParseErrorThenSuccess ==
    /\ mode = "scrape" /\ pc = "done"
    /\ Len(sc_entries) = 2
    /\ sc_failures = << [source |-> 1, error |-> "TimetableParseError"] >>
    /\ SummarySources = <<2>>
    /\ sc_status.sourcesSucceeded = 1
    /\ sc_status.sourcesFailed = 1

\* A step of the loop that records a failure of the current source.
SourceFails == mode = "scrape" /\ Len(sc_failures') = Len(sc_failures) + 1

\* The files of the directory of the current source.
SourcePaths == {p \in Paths : p[1] = sc_entries[sc_index].year}

\* C17: a step in which a source fails changes no file of the source that
\* existed before the step, and creates a file only with --soft-fail-empty,
\* only for a configured group that had no file, and only as an empty
\* timetable.
FailureKeepsFiles ==
    [][SourceFails =>
         /\ \A p \in SourcePaths \cap DOMAIN sc_files :
              p \in DOMAIN sc_files' /\ sc_files'[p] = sc_files[p]
         /\ \A p \in DOMAIN sc_files' \ DOMAIN sc_files :
              /\ sc_soft
              /\ p \in {timetable_path(sc_entries[sc_index], g) :
                          g \in sc_entries[sc_index].groups}
              /\ sc_files'[p].kind = "fallback"]_vars

\* C17: the behaviour of the code: a source recorded as failed whose
\* existing file was left truncated by the write that raised.
FailedSourceFileTruncated ==
    /\ mode = "scrape"
    /\ Len(sc_entries) = 1
    /\ sc_entries[1].groups = {511}
    /\ sc_failures = << [source |-> 1, error |-> "ValueError"] >>
    /\ sc_files = (timetable_path(sc_entries[1], 511) :> BrokenFile(1))

\* ------------------------------------------- claims: concurrent calls
\* What a call returns when it runs alone.
AloneResult(input) ==
    [returned |-> TRUE,
     grid |-> expand_table(input.table),
     group_columns |->
       detect_group_columns(expand_table(input.table), input.expected)]

CallDone(c) == mode = "calls" /\ calls[c].pc = "done"

\* C13: whatever the interleaving of the steps of the calls, a call that
\* has returned has returned what it returns when run alone, and two calls
\* with the same input have returned equal results.
CallsIndependent ==
    /\ \A c \in Callers : CallDone(c) => calls[c].result = AloneResult(calls[c].input)
    /\ \A c, d \in Callers :
         (CallDone(c) /\ CallDone(d) /\ calls[c].input = calls[d].input) =>
           calls[c].result = calls[d].result

\* C13 witness: call 2 has returned the grid of a table with a rowspan
\* while call 1, on a different table, is between two rows with a rowspan
\* of its own pending.
CallReturnedBesidePendingSpan ==
    /\ CallDone(2)
    /\ calls[2].input.table = <<trTall, trGroup>>
    /\ calls[2].result.grid = << <<<<"Luni">>, <<"512">>>>, <<<<"512">>, <<"512">>>> >>
    /\ calls[1].pc = "rows"
    /\ calls[1].input.table = <<trHeader, trWide>>
    /\ calls[1].next = 2
    /\ DOMAIN calls[1].spans # {}

\* ------------------------------------------- claims: vertical spans
\* The grid rows (from 0) in which the text of a real cell appears; every
\* real cell of the model carries a text of its own.
RowsHolding(text) ==
    {i \in 0..(Len(expanded) - 1) :
       \E j \in 1..Len(expanded[i + 1]) : expanded[i + 1][j] = text}

\* C30: once _expand_table has returned, the text of a cell with rowspan r
\* whose origin is in row i appears in no row outside i .. i + r - 1: a
\* pending span is consumed in every row after its origin and is never
\* carried beyond its last row.
SpanEndsWithRowspan ==
    ExpandDone =>
      \A o \in origins : RowsHolding(o.text) \subseteq o.i..(o.i + o.r - 1)

\* C30: the behaviour of the code: a span of two rows that skipped the row
\* after its origin and was written into the row after that.
SpanCarriedPastRowspan ==
    /\ ExpandDone
    /\ \E o \in origins :
         /\ o.r = 2
         /\ RowsHolding(o.text) = {o.i, o.i + 2}

\* ------------------------------------------- claims: stacked blocks
\* A line _detect_course takes as course text (lines 323-328).
CourseLine(l) ==
    /\ l # <<>>
    /\ ~(is_frequency_line(l) \/ is_room_line(l) \/ is_instructor_line(l)
          \/ is_formation_line(l))
    /\ strip_inline_metadata(l) # <<>>

\* A cell of two blocks separated by a blank line, each block one course
\* line, the two lines different.
TwoStackedBlocks ==
    /\ CellDone
    /\ Len(cell_lines) = 3
    /\ cell_lines[2] = lEmpty
    /\ CourseLine(cell_lines[1])
    /\ CourseLine(cell_lines[3])
    /\ cell_lines[1] # cell_lines[3]

\* C25: a cell of two blocks separated by a blank line, each with its own
\* course line, yields two entries, the first from the first block and the
\* second from the second.
StackedBlocksYieldEntries ==
    TwoStackedBlocks =>
      /\ Len(cell_out) = 2
      /\ cell_out[1] = parse_cell_entries(cell_lines[1], cell_time)[1]
      /\ cell_out[2] = parse_cell_entries(cell_lines[3], cell_time)[1]

\* C25: the behaviour of the code: the blank line is removed before the
\* text is split, and the two blocks are classified as one chunk.
StackedBlocksMerged ==
    /\ TwoStackedBlocks
    /\ cell_lines = <<lCourse, lEmpty, lTagged>>
    /\ Len(cell_out) = 1
    /\ cell_out[1].course = <<"Algebra">>

\* ------------------------------------------- claims: missing course text
\* The lines left after the formation filter, in order.
RemainingSeq == SelectSeq(CellTextLines, LAMBDA l : ~is_formation_line(l))

CourseLinesLeft == {k \in 1..Len(RemainingSeq) : CourseLine(RemainingSeq[k])}

MatchesInline(l) ==
    /\ Len(l) >= 3
    /\ IsRoomToken(l[Len(l)])
    /\ l[Len(l) - 1] \in CloseCommaWords
    /\ InlineOpen(l) >= 2

\* The groups of the match: the course after an optional "sapt. N:"
\* prefix, stripped of its metadata; the instructor; the room.
InlineParts(l) ==
    LET i == InlineOpen(l)
        from == IF i > 3 /\ l[1] \in WeekWords /\ l[2] \in {"1:", "2:"} THEN 3 ELSE 1
    IN [course |-> strip_inline_metadata(SubSeq(l, from, i - 1)),
        instructor |-> [k \in 1..(Len(l) - i) |-> InnerWord(l[i + k - 1])],
        room |-> <<l[Len(l)]>>]

\* The lines of the cell that match the inline pattern, and those of them
\* whose course is not empty once stripped.
MatchingLines == SelectSeq(CellTextLines, MatchesInline)

EntryLines == SelectSeq(MatchingLines, LAMBDA l : InlineParts(l).course # <<>>)

\* The different lines of a sequence, in the order of their first
\* occurrence.
Distinct(seq) == [k \in 1..Cardinality(FirstPositions(seq)) |->
                    seq[CHOOSE i \in FirstPositions(seq) :
                          Cardinality({j \in FirstPositions(seq) : j <= i}) = k]]

FromLines(lines) ==
    /\ Len(cell_out) = Len(Distinct(lines))
    /\ \A k \in 1..Len(cell_out) :
         /\ cell_out[k].course = InlineParts(Distinct(lines)[k]).course
         /\ cell_out[k].instructor = InlineParts(Distinct(lines)[k]).instructor
         /\ cell_out[k].room = InlineParts(Distinct(lines)[k]).room

\* C29: when a line of the chunk matches the inline pattern with a course
\* that is not empty once stripped, the entries are one per such line, in
\* line order (a repeated line once), with course, instructor and room
\* taken from the match, and the other lines give nothing; when no line
\* does, the chunk is classified line by line.
InlineFormFirst ==
    CellDone =>
      /\ EntryLines # <<>> => FromLines(EntryLines)
      /\ EntryLines = <<>> => cell_out = parse_chunk_lines(CellNormalized, cell_time)

\* C29 witness: a cell with a course line, an inline line and an
\* instructor line gave the entry of the inline line only.
InlineLineOnly ==
    /\ CellDone
    /\ cell_lines = <<lCourse, lInline, lProf>>
    /\ Len(cell_out) = 1
    /\ cell_out[1].course = <<"Logica">>
    /\ cell_out[1].instructor = <<"POP", "Ion">>
    /\ cell_out[1].room = <<"9/I">>

\* C29 as stated: when at least one line of the chunk matches the inline
\* pattern, the entries are one per matching line, with course, instructor
\* and room taken from the match.
InlineEntryPerMatch ==
    (CellDone /\ MatchingLines # <<>>) => FromLines(MatchingLines)

\* ------------------------------------------- claims: type classification
TypeDone == mode = "type" /\ pc = "done"

\* The types named by the single-letter markers of the text, by all its
\* markers in parentheses, and by its free keywords.
LetterMarkerTypes ==
    {TypeTagOf[type_text[k]] : k \in {i \in 1..Len(type_text) : type_text[i] \in TypeTagWords}}

MarkerTypes ==
    {TypeTagOf[type_text[k]] :
       k \in {i \in 1..Len(type_text) : type_text[i] \in DOMAIN TypeTagOf}}

KeywordTypes ==
    {t \in {"lecture", "seminar", "lab"} :
       \E k \in 1..Len(type_text) :
         \/ t = "lecture" /\ fold(type_text[k]) \in {"lecture", "course", "curs"}
         \/ t = "seminar" /\ fold(type_text[k]) = "seminar"
         \/ t = "lab" /\ fold(type_text[k]) \in {"lab", "laborator", "(lab)"}}

\* The first of lecture, seminar, lab that is in a set of types.
FirstType(types) ==
    IF "lecture" \in types THEN "lecture"
    ELSE IF "seminar" \in types THEN "seminar"
    ELSE "lab"

\* C27: a marker in parentheses, (c), (curs), (s), (sem), (l) or (lab),
\* decides the type whatever the keywords of the text, lecture before
\* seminar before lab when the text has markers of several types; without
\* a marker the keywords decide in the same order; with neither the type
\* is lecture.
TypeByMarkerThenKeyword ==
    TypeDone =>
      type_out = IF MarkerTypes # {} THEN FirstType(MarkerTypes)
                 ELSE IF KeywordTypes # {} THEN FirstType(KeywordTypes)
                 ELSE "lecture"

\* C27 witness: a text with the marker (S) and the keyword "laborator" was
\* classified as a seminar.
MarkerBeatsKeyword ==
    /\ TypeDone
    /\ type_text = <<"Algebra", "laborator", "(S)">>
    /\ type_out = "seminar"

\* C27 as stated: a single-letter marker (c), (s) or (l) decides the type;
\* only without one do the keywords decide, and with neither the type is
\* lecture.
TypeBySingleLetterMarker ==
    TypeDone =>
      /\ Cardinality(LetterMarkerTypes) = 1 => type_out \in LetterMarkerTypes
      /\ (LetterMarkerTypes = {} /\ Cardinality(KeywordTypes) = 1) =>
           type_out \in KeywordTypes
      /\ (LetterMarkerTypes = {} /\ KeywordTypes = {}) => type_out = "lecture"

\* The table the step has appended to the document, when it appended one.
TableVisited ==
    /\ mode = "parse" /\ pc = "section"
    /\ Len(doc') = Len(doc) + 1
    /\ doc'[Len(doc')].kind = "table"

\* C22: the header row is looked for in the first 4 grid rows only; a table
\* none of whose first 4 rows names both a day and a time column yields no
\* entry, and the step that reads it adds no group to the detected groups
\* and no entry to any (group, day) list.
HeaderlessTableRejected ==
    [][(TableVisited /\ ~HasDayTimeHeader(table_grid[doc'[Len(doc')]])) =>
         /\ group_table_rows[doc'[Len(doc')]].rows = <<>>
         /\ detected_groups' = detected_groups
         /\ grouped_entries' = grouped_entries]_vars

\* C22 witness: a table whose day+time header is its fifth row has been read
\* under a heading of an accepted group, and no group is detected.
HeaderBelowScannedRows ==
    /\ mode = "parse" /\ pc = "section"
    /\ detected_groups = {}
    /\ \E t \in 1..Len(doc) :
         /\ doc[t].kind = "table"
         /\ ~HasDayTimeHeader(table_grid[doc[t]])
         /\ \E i \in (HeaderScanRows + 1)..(Len(table_grid[doc[t]]) - 1) :
              {"day", "time"} \subseteq DOMAIN HeaderMapping(table_grid[doc[t]][i])
         /\ LastHeadingGroup(doc, t) # NoGroup
         /\ (expected = {} \/ LastHeadingGroup(doc, t) \in expected)

\* The scanned rows of the grid whose mapping holds both a day and a time
\* column.
DayTimeHeaderRows(g) ==
    {h \in 1..Min(HeaderScanRows, Len(g)) :
       {"day", "time"} \subseteq DOMAIN HeaderMapping(g[h])}

\* C23 (as claimed): a table one of whose first 4 rows names both a day and
\* a time column is not rejected: what it yields is the parse of the rows
\* below such a row under that row's mapping, whatever the other scanned
\* rows recognize.
DayTimeHeaderUsed ==
    \A t \in 1..Len(doc) :
      doc[t].kind = "table" =>
        \E g \in {table_grid[doc[t]]} :
          DayTimeHeaderRows(g) # {} =>
            \E h \in DayTimeHeaderRows(g) :
              group_table_rows[doc[t]].rows =
                GroupRows(SubSeq(g, h + 1, Len(g)), HeaderMapping(g[h]))

\* The row gives a day and a time under the header mapping.
RowResolves(row, best_header_map) ==
    /\ best_header_map["day"] < Len(row)
    /\ best_header_map["time"] < Len(row)
    /\ normalize_day(row[best_header_map["day"] + 1]) # ""
    /\ SearchTime(row[best_header_map["time"] + 1]) # ""

\* The course column is unmapped or blank, and no cell besides the day and
\* the time cell is a course line.
NoCourseText(row, best_header_map) ==
    LET others == SelectSeq([c \in 1..Len(row) |->
                               IF c - 1 \in {best_header_map["day"], best_header_map["time"]}
                               THEN <<>> ELSE row[c]],
                            LAMBDA cell : cell # <<>>)
    IN /\ \/ "course" \notin DOMAIN best_header_map
          \/ best_header_map["course"] >= Len(row)
          \/ normalize_space(row[best_header_map["course"] + 1]) = <<>>
       /\ detect_course_strict(others) = <<>>

\* C24 (as claimed): below an accepted header row, a row whose day and time
\* resolve and which has no course text produces no entry.
CourselessRowDropped ==
    \A t \in 1..Len(doc) :
      doc[t].kind = "table" =>
        \E g \in {table_grid[doc[t]]} :
        \E h \in {BestHeaderRow(g)} :
          (h # 0 /\ {"day", "time"} \subseteq DOMAIN HeaderMapping(g[h])) =>
            \A r \in (h + 1)..Len(g) :
              (RowResolves(g[r], HeaderMapping(g[h])) /\ NoCourseText(g[r], HeaderMapping(g[h])))
                => parse_group_row(g[r], HeaderMapping(g[h])) = <<>>

\* (a) the group heading of the table's caption, else of the first of its
\* first three rows that holds one.
CaptionOrRowGroup(node) ==
    LET with == {k \in 1..Min(3, Len(node.rows)) :
                   extract_group_heading(RowText(node.rows[k])) # NoGroup}
    IN IF extract_group_heading(normalize_space(node.caption)) # NoGroup
       THEN extract_group_heading(normalize_space(node.caption))
       ELSE IF with # {} THEN extract_group_heading(RowText(node.rows[SetMin(with)]))
       ELSE NoGroup

\* (b) the group heading of the nearest tag among the 6 siblings before
\* node t that holds one.
SiblingGroup(d, t) ==
    LET with == {k \in 1..(t - 1) :
                   /\ t - k <= 6
                   /\ d[k].kind = "heading"
                   /\ extract_group_heading(NodeText(d[k])) # NoGroup}
    IN IF with = {} THEN NoGroup ELSE extract_group_heading(NodeText(d[SetMax(with)]))

\* (a), else (b), else (c) the group of the last heading before the table.
PriorityGroup(d, t) ==
    IF CaptionOrRowGroup(d[t]) # NoGroup THEN CaptionOrRowGroup(d[t])
    ELSE IF SiblingGroup(d, t) # NoGroup THEN SiblingGroup(d, t)
    ELSE LastHeadingGroup(d, t)

\* The groups that hold an entry read from node t.
FiledUnder(t) ==
    {g \in DOMAIN sources :
       \E day \in DOMAIN sources[g] :
         \E i \in 1..Len(sources[g][day]) : sources[g][day][i][1] = t}

\* C28 (as claimed): the entries of a table are filed under the group found
\* by (a), else (b), else (c), and under that group only; a table for which
\* all three fail is skipped: it files nothing, detects no group and raises
\* no error.
TableGroupByPriority ==
    mode = "group" =>
      \A t \in 1..Len(doc) :
        doc[t].kind = "table" =>
          /\ result.status # "error"
          /\ IF PriorityGroup(doc, t) = NoGroup
             THEN FiledUnder(t) = {} /\ detected_groups = {}
             ELSE FiledUnder(t) = {PriorityGroup(doc, t)}
                  /\ detected_groups = {PriorityGroup(doc, t)}

\* The day the walk is in once it has read grid row r: the day of the last
\* row up to r with a cell that holds a day alias.
DayAfterRow(g, r) ==
    LET HasDay(row) == \E c \in 1..Len(row) : normalize_day(row[c]) # ""
        with == {k \in 1..r : HasDay(g[k])}
        first == SetMin({c \in 1..Len(g[SetMax(with)]) : normalize_day(g[SetMax(with)][c]) # ""})
    IN IF with = {} THEN "" ELSE normalize_day(g[SetMax(with)][first])

\* Some cell of the row holds a time range.
HasTimeCell(row) == \E c \in 1..Len(row) : SearchTime(row[c]) # ""

\* The (group, day) lists that differ between two groupings.
ChangedBuckets(before, after) ==
    {p \in (DOMAIN after) \X Range(DAY_ORDER) :
       EntriesOf(after, p[1], p[2]) # EntriesOf(before, p[1], p[2])}

\* C21: the step that reads a grid row of the columnar walk leaves the
\* current day at the day of the most recent row with a day alias; when no
\* day is set yet or no cell of the row holds a time range it leaves every
\* (group, day) list unchanged, and otherwise it changes only lists of the
\* current day.
ColumnarRowWalk ==
    [][(mode = "parse" /\ pc = "walk" /\ crow' = crow + 1) =>
         /\ current_day' = DayAfterRow(cgrid, crow)
         /\ (DayAfterRow(cgrid, crow) = "" \/ ~HasTimeCell(cgrid[crow]))
              => grouped_entries' = grouped_entries
         /\ \A p \in ChangedBuckets(grouped_entries, grouped_entries') :
              p[2] = DayAfterRow(cgrid, crow)]_vars

\* C21 witness: the walk has passed a row before the first day label and
\* holds an entry read from a row without a day alias, filed under the day
\* of an earlier row.
EntryUnderCarriedDay ==
    /\ mode = "parse" /\ pc = "walk"
    /\ \E r \in 1..(crow - 1) : DayAfterRow(cgrid, r) = ""
    /\ \E g \in DOMAIN sources :
         \E day \in DOMAIN sources[g] :
           \E i \in 1..Len(sources[g][day]) :
             LET r == sources[g][day][i][2] + 1
             IN /\ DayAfterRow(cgrid, r) = day
                /\ \A c \in 1..Len(cgrid[r]) : normalize_day(cgrid[r][c]) = ""
====
